---- MODULE Spec2Model ----
(***************************************************************************)
(* Model of the d1_sync push pipeline: StateManager (core/state.py),       *)
(* SyncEngine.push (core/engine.py), SQLiteConnector.iter_rows             *)
(* (connectors/sqlite.py) and SQLChunker.chunk_rows (core/chunker.py).     *)
(*                                                                         *)
(* Abstractions: timestamps and SQL text are dropped; a row is identified  *)
(* by its offset in the table's order and carries only its serialized byte *)
(* size; an error message is reduced to its key <<table, start offset>>.   *)
(* None is modelled by NONE (-1) for optional integers, by NoStatus for an *)
(* optional status, by 0 for the optional row limit (the code tests the    *)
(* limit for truthiness) and by "" for the optional settings hash.         *)
(***************************************************************************)
EXTENDS Integers, Sequences, FiniteSets, TLC

\* ------------------------------------------------------------------------
\* Bounds of the model
\* ------------------------------------------------------------------------
MaxRows == 3
MaxRuns == 2
BatchSize == 2
MaxSize == 12
BaseSize == 4

TableNames == <<"users", "orders">>
TableSet == {TableNames[i] : i \in 1..Len(TableNames)}
LimitChoices == {0, 1}
Outcomes == {"success", "failure", "exception"}

NONE == -1
NoStatus == "none"

Min(a, b) == IF a < b THEN a ELSE b
Max(a, b) == IF a > b THEN a ELSE b

VARIABLES
    file,       \* the state file on disk: [kind, st]
    mem,        \* StateManager._state (NoState when None)
    pc,         \* position of the push coroutine
    run,        \* number of push invocations started so far
    cfg,        \* settings.sync of the current run
    src,        \* row count of every table of the source database
    ti,         \* index of the current table in the table loop
    loc,        \* locals of push and of the iter_rows generator
    chunks,     \* chunks of the current batch not yet dispatched
    stats,      \* SyncStats of the current run
    sent,       \* ghost: how often each row was dispatched over all runs,
                \* recorded as long as every run is plain (zero afterwards)
    acked,      \* ghost: rows whose execute returned success in this run
    failedRun,  \* ghost: some row failed during this run
    plain,      \* ghost: every run so far was real, unlimited and (from the
                \* second on) resuming, and every earlier run was killed
    clean,      \* ghost: no chunk has failed in any run so far
    returned,   \* push returned its statistics to the caller
    goc,        \* call record of the get_or_create_state harness
    ck,         \* call record of the chunk_rows harness
    rq,         \* one D1Client.execute call: script, attempts, sleeps, result
    ts,         \* call record of the table sort harness
    db,         \* a SQLiteConnector and the database it is opened on
    remote,     \* what this run of push has executed on the remote database
    it,         \* one iter_rows generator: arguments, position, batches
    im,         \* one D1Client.import_sql call: server script, steps, result
    tf,         \* call record of the Settings.to_file harness
    fr,         \* StateManager._state.failed_rows and the last call on it
    fm,         \* call record of the find_mismatches harness
    ev,         \* call record of the escape_value harness
    pl          \* one table of a pull: remote rows, position, local result

vars == <<file, mem, pc, run, cfg, src, ti, loc, chunks, stats, sent, acked,
          failedRun, plain, clean, returned, goc, ck, rq, ts, db, remote,
          it, im, tf, fr, fm, ev, pl>>

\* the variables of the component harnesses other than goc
others == <<ck, rq, ts, db, it, im, tf, fr, fm, ev, pl>>

\* the variables of a push run
pushVars == <<pc, run, cfg, src, ti, loc, chunks, stats, sent, acked,
              failedRun, plain, clean, returned, remote>>

\* ------------------------------------------------------------------------
\* core/state.py : data
\* ------------------------------------------------------------------------
EmptyTables == [t \in {} |-> 0]

TableProgress(total) ==
    [total_rows |-> total, processed_rows |-> 0, failed_rows |-> 0,
     last_offset |-> 0, status |-> "pending"]

SyncState(operation, source, destination, settings_hash) ==
    [operation |-> operation, source |-> source, destination |-> destination,
     status |-> "in_progress", tables |-> EmptyTables, failed_rows |-> <<>>,
     total_rows_processed |-> 0, total_rows_failed |-> 0,
     settings_hash |-> settings_hash]

NoState ==
    [operation |-> "", source |-> "", destination |-> "", status |-> NoStatus,
     tables |-> EmptyTables, failed_rows |-> <<>>, total_rows_processed |-> 0,
     total_rows_failed |-> 0, settings_hash |-> ""]

AbsentFile == [kind |-> "absent", st |-> NoState]
TruncatedFile == [kind |-> "truncated", st |-> NoState]
\* valid JSON that is not a state record: not an object, or a table entry
\* whose keys are not the fields of TableProgress
MalformedFile == [kind |-> "malformed", st |-> NoState]
ValidFile(st) == [kind |-> "valid", st |-> st]

RECURSIVE SumOver(_, _, _)
SumOver(tables, names, field) ==
    IF names = {} THEN 0
    ELSE LET t == CHOOSE x \in names : TRUE
         IN  (IF field = "processed_rows" THEN tables[t].processed_rows
              ELSE tables[t].failed_rows)
             + SumOver(tables, names \ {t}, field)

SumProcessed(tables) == SumOver(tables, DOMAIN tables, "processed_rows")
SumFailed(tables) == SumOver(tables, DOMAIN tables, "failed_rows")

\* ------------------------------------------------------------------------
\* core/state.py : StateManager
\* ------------------------------------------------------------------------
\* load: the record if the file exists and parses, else None
load(f) == IF f.kind = "valid" THEN f.st ELSE NoState

\* load lets through what from_dict raises on a malformed file (TypeError,
\* AttributeError): it catches JSONDecodeError and KeyError only
load_raises(f) == f.kind = "malformed"

save_none(st, f) == f
\* what save leaves on disk when it runs to its end
save(st, f) == IF st = NoState THEN f ELSE ValidFile(st)

Resumable(existing, operation, source, destination, settings_hash) ==
    /\ existing # NoState
    /\ existing.operation = operation
    /\ existing.source = source
    /\ existing.destination = destination
    /\ existing.status = "in_progress"
    /\ ~ (settings_hash # "" /\ existing.settings_hash # settings_hash)

get_or_create_state(f, operation, source, destination, settings_hash) ==
    LET existing == load(f)
    IN  IF Resumable(existing, operation, source, destination, settings_hash)
        THEN existing
        ELSE SyncState(operation, source, destination, settings_hash)

init_table(st, table_name, total_rows) ==
    IF table_name \in DOMAIN st.tables THEN st
    ELSE [st EXCEPT !.tables =
            [t \in DOMAIN st.tables \cup {table_name} |->
                IF t = table_name THEN TableProgress(total_rows)
                ELSE st.tables[t]]]

\* mutant: processed is added to the stored count instead of replacing it
update_progress_add(st, table_name, processed, failed, last_offset, status) ==
    LET p0 == st.tables[table_name]
        p1 == IF processed # NONE
              THEN [p0 EXCEPT !.processed_rows = @ + processed]
              ELSE p0
        p2 == IF failed # NONE THEN [p1 EXCEPT !.failed_rows = failed] ELSE p1
        p3 == IF last_offset # NONE THEN [p2 EXCEPT !.last_offset = last_offset]
              ELSE p2
        p4 == IF status # NoStatus THEN [p3 EXCEPT !.status = status] ELSE p3
        tbl == [st.tables EXCEPT ![table_name] = p4]
    IN  [st EXCEPT
            !.tables = tbl,
            !.total_rows_processed =
                IF processed # NONE THEN SumProcessed(tbl) ELSE @,
            !.total_rows_failed =
                IF failed # NONE THEN SumFailed(tbl) ELSE @]

update_table_progress(st, table_name, processed, failed, last_offset, status) ==
    LET p0 == st.tables[table_name]
        p1 == IF processed # NONE THEN [p0 EXCEPT !.processed_rows = processed]
              ELSE p0
        p2 == IF failed # NONE THEN [p1 EXCEPT !.failed_rows = failed] ELSE p1
        p3 == IF last_offset # NONE THEN [p2 EXCEPT !.last_offset = last_offset]
              ELSE p2
        p4 == IF status # NoStatus THEN [p3 EXCEPT !.status = status] ELSE p3
        tbl == [st.tables EXCEPT ![table_name] = p4]
    IN  [st EXCEPT
            !.tables = tbl,
            !.total_rows_processed =
                IF processed # NONE THEN SumProcessed(tbl) ELSE @,
            !.total_rows_failed =
                IF failed # NONE THEN SumFailed(tbl) ELSE @]

\* mutant: last_offset taken as the last row done, not as the next row to do
get_resume_offset_next(st, table_name) ==
    IF /\ table_name \in DOMAIN st.tables
       /\ st.tables[table_name].status \in {"in_progress", "failed"}
    THEN st.tables[table_name].last_offset + 1
    ELSE 0

get_resume_offset(st, table_name) ==
    IF /\ table_name \in DOMAIN st.tables
       /\ st.tables[table_name].status \in {"in_progress", "failed"}
    THEN st.tables[table_name].last_offset
    ELSE 0

should_process_table_all(st, table_name) == TRUE
should_process_table(st, table_name) ==
    ~ (/\ table_name \in DOMAIN st.tables
       /\ st.tables[table_name].status = "completed")

mark_sync_complete(st, status) ==
    IF st = NoState THEN st ELSE [st EXCEPT !.status = status]

\* ------------------------------------------------------------------------
\* core/chunker.py : SQLChunker.chunk_rows, on the serialized sizes of the rows
\* ------------------------------------------------------------------------
RECURSIVE SumSizes(_, _, _)
SumSizes(sizes, from, to) ==
    IF from > to THEN 0 ELSE sizes[from] + SumSizes(sizes, from + 1, to)

\* byte length of build_insert_statement over rows from..to (1-based) of sizes
StatementSize(sizes, from, to) ==
    BaseSize + SumSizes(sizes, from, to) + 2 * (to - from)

InsertChunk(sizes, from, to, chunk_start, end_offset) ==
    [row_count |-> to - from + 1,
     byte_size |-> StatementSize(sizes, from, to),
     start_offset |-> chunk_start,
     end_offset |-> end_offset]

separator_size_none(n) == 0
separator_size_always(n) == 2
\* ",\n" before every row of a statement but the first; n: Len(current_rows)
separator_size(n) == IF n > 0 THEN 2 ELSE 0

next_chunk_start_off(start_offset, i) == start_offset + i
\* offset of the row that opens a new chunk; i is 1-based here, where the
\* source's enumerate index is 0-based
next_chunk_start(start_offset, i) == start_offset + (i - 1)

\* i: 1-based index of the row looked at; n: Len(current_rows);
\* size: current_size; chunk_start: offset of the first row of current_rows
RECURSIVE ChunkLoop(_, _, _, _, _, _, _)
ChunkLoop(sizes, start_offset, i, n, size, chunk_start, out) ==
    IF i > Len(sizes)
    THEN IF n > 0
         THEN Append(out, InsertChunk(sizes, i - n, i - 1, chunk_start,
                                      start_offset + Len(sizes) - 1))
         ELSE out
    ELSE LET row_size == sizes[i]
             total_row_size == row_size + separator_size(n)
         IN  IF n > 0 /\ size + total_row_size > MaxSize
             THEN ChunkLoop(sizes, start_offset, i + 1, 1, BaseSize + row_size,
                            next_chunk_start(start_offset, i),
                            Append(out, InsertChunk(sizes, i - n, i - 1,
                                       chunk_start, chunk_start + n - 1)))
             ELSE ChunkLoop(sizes, start_offset, i + 1, n + 1,
                            size + total_row_size, chunk_start, out)

chunk_rows_reversed(sizes, start_offset) ==
    LET out == ChunkLoop(sizes, start_offset, 1, 0, BaseSize, start_offset, <<>>)
    IN  [k \in 1..Len(out) |-> out[Len(out) + 1 - k]]
\* lines 184-233: the chunks of a batch, in the order they are yielded
chunk_rows(sizes, start_offset) ==
    IF sizes = <<>> THEN <<>>
    ELSE ChunkLoop(sizes, start_offset, 1, 0, BaseSize, start_offset, <<>>)

\* ------------------------------------------------------------------------
\* The source database (static) and connectors/sqlite.py : iter_rows
\* ------------------------------------------------------------------------
Source == "local.db"
Destination == "db@cloudflare"

\* serialized size of _format_row for the row at an offset of a table
RowSize(t, offset) ==
    IF t = "users" THEN 2 ELSE IF offset = 2 THEN 14 ELSE 6

BatchSizes(t, offset, len) == [k \in 1..len |-> RowSize(t, offset + k - 1)]

RECURSIVE SumRows(_, _)
SumRows(rows, names) ==
    IF names = {} THEN 0
    ELSE LET t == CHOOSE x \in names : TRUE
         IN  rows[t] + SumRows(rows, names \ {t})

\* number of rows of the batch iter_rows yields next (0: the generator ends)
FetchLen(n, current_offset, rows_fetched, limit) ==
    LET avail == Min(BatchSize, Max(0, n - current_offset))
    IN  IF limit # 0 /\ avail > 0
        THEN Min(avail, Max(1, limit - rows_fetched))
        ELSE avail

\* ------------------------------------------------------------------------
\* core/engine.py : SyncEngine.push
\* ------------------------------------------------------------------------
Configs == [resume : BOOLEAN, limit : LimitChoices, dry_run : BOOLEAN]

NoLoc ==
    [start_offset |-> 0, current_offset |-> 0, rows_fetched |-> 0,
     gen_done |-> FALSE, table_rows_processed |-> 0, table_rows_failed |-> 0,
     batch_offset |-> 0, batch_len |-> 0]

SyncStats(tables_total, rows_total) ==
    [tables_total |-> tables_total, tables_processed |-> 0,
     rows_total |-> rows_total, rows_processed |-> 0, rows_failed |-> 0,
     bytes_transferred |-> 0, errors |-> <<>>]

NoStats == SyncStats(0, 0)
NoCfg == [resume |-> TRUE, limit |-> 0, dry_run |-> FALSE]
GocIdle ==
    [file |-> AbsentFile, operation |-> "", source |-> "", destination |-> "",
     settings_hash |-> "", called |-> FALSE, raised |-> FALSE,
     result |-> NoState]

CkIdle == [sizes |-> <<>>, start_offset |-> 0, called |-> FALSE, out |-> <<>>]
NoResult == [success |-> FALSE, error |-> "", delay |-> NONE]
RqIdle == [script |-> <<>>, pc |-> "idle", attempt |-> 0, attempts |-> 0,
           sleeps |-> <<>>, result |-> NoResult, exc |-> ""]
TsIdle == [listed |-> {}, refs |-> <<>>, called |-> FALSE, out |-> <<>>]
NoTable == [exists |-> FALSE, nrows |-> 0]
NoCall == [op |-> "none", arg |-> "", raised |-> "", result |-> NONE]
DbIdle == [readonly |-> FALSE, contents |-> NoTable, before |-> NoTable,
           last |-> NoCall]

\* nothing executed on the remote: no CREATE TABLE (schema), no data chunk
\* (data), no verification count, no mismatch found; last: the statement
\* sent last, as the index of its table and the start offset of its chunk
\* (NONE for the table's CREATE TABLE)
NoStatement == [ti |-> 0, start_offset |-> NONE]
NoRemote == [schema |-> {}, data |-> {}, verified |-> FALSE, mismatch |-> {},
             last |-> NoStatement]
ItIdle == [n |-> 0, batch_size |-> 1, offset |-> 0, limit |-> NONE,
           pc |-> "idle", current_offset |-> 0, rows_fetched |-> 0,
           batches |-> <<>>]
NoImport == [success |-> FALSE, status |-> "", error |-> ""]
ImIdle == [poll_interval |-> 0, max_wait |-> 0, pc |-> "idle", log |-> <<>>,
           elapsed |-> 0, result |-> NoImport]
TfIdle == [called |-> FALSE]
FrIdle == [rows |-> <<>>, before |-> <<>>, calls |-> 0]
FmIdle == [called |-> FALSE]
EvIdle == [called |-> FALSE]
PlIdle == [pc |-> "idle", progress |-> [status |-> "none"]]

Rows == TableSet \X (0..(MaxRows - 1))
NoneSent == [r \in Rows |-> 0]

\* config.py, SyncOptions: the defaults of sync_schema and verify_after_sync
sync_schema == TRUE
verify_after_sync == TRUE
ChunkRowsOf(t, c) == {<<t, o>> : o \in c.start_offset..c.end_offset}

Running == {"table", "batch", "chunk"}
Stopped == {"idle", "done", "crashed", "cancelled", "nosource"}

\* a run as the crash-resume scenario has it: real, unlimited, resuming
PlainRun(c, r) == ~ c.dry_run /\ c.limit = 0 /\ (r > 1 => c.resume)

FinalStatus(st) == IF st.rows_failed = 0 THEN "completed" ELSE "failed"

Init ==
    /\ file = AbsentFile
    /\ mem = NoState
    /\ pc = "idle"
    /\ run = 0
    /\ cfg = NoCfg
    /\ src \in [TableSet -> 0..MaxRows]
    /\ ti = 0
    /\ loc = NoLoc
    /\ chunks = <<>>
    /\ stats = NoStats
    /\ sent = NoneSent
    /\ acked = {}
    /\ failedRun = FALSE
    /\ plain = TRUE
    /\ clean = TRUE
    /\ returned = FALSE
    /\ goc = GocIdle
    /\ ck = CkIdle
    /\ rq = RqIdle
    /\ ts = TsIdle
    /\ db = DbIdle
    /\ remote = NoRemote
    /\ fr = FrIdle
    /\ fm = FmIdle
    /\ ev = EvIdle
    /\ pl = PlIdle
    /\ it = ItIdle
    /\ im = ImIdle
    /\ tf = TfIdle

\* lines 124-161: a new invocation of push on an existing source
StartPush(c) ==
    /\ pc \in Stopped
    /\ run < MaxRuns
    /\ ~ load_raises(file)
    /\ run' = run + 1
    /\ cfg' = c
    /\ plain' = (plain /\ PlainRun(c, run + 1) /\ (run > 0 => pc = "crashed"))
    /\ sent' = IF plain' THEN sent ELSE NoneSent
    /\ mem' = get_or_create_state(file, "push", Source, Destination, "")
    /\ stats' = SyncStats(Len(TableNames), SumRows(src, TableSet))
    /\ ti' = 1
    /\ loc' = NoLoc
    /\ chunks' = <<>>
    /\ acked' = {}
    /\ failedRun' = FALSE
    /\ returned' = FALSE
    /\ remote' = NoRemote
    /\ pc' = "table"
    /\ UNCHANGED <<file, src, clean, goc, others>>

\* lines 129-132: the source path does not exist
PushMissingSource(c) ==
    /\ pc \in Stopped
    /\ run < MaxRuns
    /\ run' = run + 1
    /\ cfg' = c
    /\ plain' = FALSE
    /\ sent' = NoneSent
    /\ mem' = NoState
    /\ stats' = [NoStats EXCEPT !.errors = <<<<"source", 0>>>>]
    /\ ti' = 0
    /\ loc' = NoLoc
    /\ chunks' = <<>>
    /\ acked' = {}
    /\ failedRun' = FALSE
    /\ returned' = TRUE
    /\ remote' = NoRemote
    /\ pc' = "nosource"
    /\ UNCHANGED <<file, src, clean, goc, others>>

\* lines 165-170: a table the state marks completed is skipped
SkipTable ==
    /\ pc = "table"
    /\ ti <= Len(TableNames)
    /\ ~ should_process_table(mem, TableNames[ti])
    /\ stats' = [stats EXCEPT
                    !.tables_processed = @ + 1,
                    !.rows_processed = @ + src[TableNames[ti]]]
    /\ ti' = ti + 1
    /\ UNCHANGED <<file, mem, pc, run, cfg, src, loc, chunks, sent, acked,
                   failedRun, plain, clean, returned, remote,
                   goc, others>>

\* lines 172-191: init_table, status in_progress, resume offset, counters
BeginTable ==
    /\ pc = "table"
    /\ ti <= Len(TableNames)
    /\ should_process_table(mem, TableNames[ti])
    /\ LET t == TableNames[ti]
           st == update_table_progress(init_table(mem, t, src[t]), t,
                                       NONE, NONE, NONE, "in_progress")
           start_offset == IF cfg.resume THEN get_resume_offset(st, t) ELSE 0
       IN  /\ mem' = st
           /\ loc' = [NoLoc EXCEPT !.start_offset = start_offset,
                                   !.current_offset = start_offset]
    /\ chunks' = <<>>
    /\ remote' = IF sync_schema
                 THEN [remote EXCEPT
                          !.schema = @ \cup {TableNames[ti]},
                          !.last = [ti |-> ti, start_offset |-> NONE]]
                 ELSE remote
    /\ pc' = "batch"
    /\ UNCHANGED <<file, run, cfg, src, ti, stats, sent, acked, failedRun,
                   plain, clean, returned, goc, others>>

\* lines 193-206: the next batch of iter_rows, chunked by chunk_rows
NextBatch ==
    /\ pc = "batch"
    /\ LET t == TableNames[ti]
           len == IF loc.gen_done THEN 0
                  ELSE FetchLen(src[t], loc.current_offset, loc.rows_fetched,
                                cfg.limit)
       IN  /\ len > 0
           /\ loc' = [loc EXCEPT !.batch_offset = loc.current_offset,
                                 !.batch_len = len,
                                 !.rows_fetched = @ + len]
           /\ chunks' = chunk_rows(BatchSizes(t, loc.current_offset, len),
                                   loc.current_offset)
    /\ pc' = "chunk"
    /\ UNCHANGED <<file, mem, run, cfg, src, ti, stats, sent, acked, failedRun,
                   plain, clean, returned, remote,
                   goc, others>>

\* lines 252-255: iter_rows is exhausted, the table gets its final status
EndTable ==
    /\ pc = "batch"
    /\ LET t == TableNames[ti]
           len == IF loc.gen_done THEN 0
                  ELSE FetchLen(src[t], loc.current_offset, loc.rows_fetched,
                                cfg.limit)
           status == IF loc.table_rows_failed = 0 THEN "completed" ELSE "failed"
       IN  /\ len = 0
           /\ mem' = update_table_progress(mem, t, NONE, NONE, NONE, status)
    /\ stats' = [stats EXCEPT !.tables_processed = @ + 1]
    /\ ti' = ti + 1
    /\ loc' = NoLoc
    /\ pc' = "table"
    /\ UNCHANGED <<file, run, cfg, src, chunks, sent, acked, failedRun, plain,
                   clean, returned, remote,
                   goc, others>>

\* lines 221-224: dry run, the chunk is only counted
CountChunk ==
    /\ pc = "chunk"
    /\ chunks # <<>>
    /\ cfg.dry_run
    /\ LET c == Head(chunks)
       IN  /\ loc' = [loc EXCEPT !.table_rows_processed = @ + c.row_count]
           /\ stats' = [stats EXCEPT !.bytes_transferred = @ + c.byte_size]
    /\ chunks' = Tail(chunks)
    /\ UNCHANGED <<file, mem, pc, run, cfg, src, ti, sent, acked, failedRun,
                   plain, clean, returned, remote,
                   goc, others>>

chunk_error_end(t, c) == <<t, c.end_offset>>
\* lines 216-219, 228-230: the error of a failed chunk, <table>@<start offset>
chunk_error(t, c) == <<t, c.start_offset>>

\* lines 207-230: d1.execute(chunk.sql) and its three outcomes
ExecChunk(outcome) ==
    /\ pc = "chunk"
    /\ chunks # <<>>
    /\ ~ cfg.dry_run
    /\ LET c == Head(chunks)
           t == TableNames[ti]
       IN  /\ sent' = [r \in Rows |->
                          IF plain /\ r \in ChunkRowsOf(t, c) THEN sent[r] + 1
                          ELSE sent[r]]
           /\ IF outcome = "success"
              THEN /\ loc' = [loc EXCEPT !.table_rows_processed = @ + c.row_count]
                   /\ stats' = [stats EXCEPT !.bytes_transferred = @ + c.byte_size]
                   /\ acked' = acked \cup ChunkRowsOf(t, c)
                   /\ UNCHANGED <<failedRun, clean>>
              ELSE /\ loc' = [loc EXCEPT !.table_rows_failed = @ + c.row_count]
                   /\ stats' = [stats EXCEPT
                                   !.errors = Append(@, chunk_error(t, c))]
                   /\ failedRun' = TRUE
                   /\ clean' = FALSE
                   /\ UNCHANGED acked
    /\ chunks' = Tail(chunks)
    /\ remote' = [remote EXCEPT
                    !.data = @ \cup {TableNames[ti]},
                    !.last = [ti |-> ti,
                              start_offset |-> Head(chunks).start_offset]]
    /\ UNCHANGED <<file, mem, pc, run, cfg, src, ti, plain, returned, goc, others>>

\* lines 232-250: progress update, statistics, save; torn: the process dies
\* inside write_text, after the file was truncated and before it is complete
EndBatch(torn) ==
    /\ pc = "chunk"
    /\ chunks = <<>>
    /\ LET t == TableNames[ti]
           st == update_table_progress(mem, t, loc.table_rows_processed,
                                       loc.table_rows_failed,
                                       loc.batch_offset + loc.batch_len, NoStatus)
       IN  IF torn
           THEN /\ file' = TruncatedFile
                /\ mem' = NoState
                /\ pc' = "crashed"
                /\ loc' = NoLoc
                /\ stats' = NoStats
                /\ ti' = 0
                /\ remote' = NoRemote
           ELSE /\ file' = save(st, file)
                /\ mem' = st
                /\ pc' = "batch"
                /\ loc' = [loc EXCEPT
                              !.current_offset = @ + loc.batch_len,
                              !.gen_done = (cfg.limit # 0
                                            /\ loc.rows_fetched >= cfg.limit)]
                /\ stats' = [stats EXCEPT
                                !.rows_processed = SumProcessed(st.tables),
                                !.rows_failed = loc.table_rows_failed]
                /\ ti' = ti
                /\ remote' = remote
    /\ UNCHANGED <<run, cfg, src, chunks, sent, acked, failedRun, plain,
                   clean, returned, goc, others>>

\* lines 257-259: _verify_sync compares, for every selected table, the row
\* count of the source with the remote's; mismatch: the tables that differ
Verifying == verify_after_sync /\ ~ cfg.dry_run

RECURSIVE MismatchErrors(_, _)
MismatchErrors(i, mismatch) ==
    IF i > Len(TableNames) THEN <<>>
    ELSE (IF TableNames[i] \in mismatch
          THEN <<<<"mismatch", i>>>> ELSE <<>>)
         \o MismatchErrors(i + 1, mismatch)

\* lines 257-268: end of the table loop, verification, the finally block,
\* return
FinishPush(torn, mismatch) ==
    /\ pc = "table"
    /\ ti > Len(TableNames)
    /\ mismatch # {} => Verifying
    /\ LET verified == [stats EXCEPT
                           !.errors = @ \o MismatchErrors(1, mismatch)]
           st == mark_sync_complete(mem, FinalStatus(verified))
       IN  IF torn
           THEN /\ file' = TruncatedFile
                /\ mem' = NoState
                /\ pc' = "crashed"
                /\ stats' = NoStats
                /\ returned' = FALSE
                /\ remote' = NoRemote
           ELSE /\ file' = save(st, file)
                /\ mem' = st
                /\ pc' = "done"
                /\ stats' = verified
                /\ returned' = TRUE
                /\ remote' = [remote EXCEPT !.verified = Verifying,
                                            !.mismatch = mismatch]
    /\ ti' = 0
    /\ UNCHANGED <<run, cfg, src, loc, chunks, sent, acked, failedRun, plain,
                   clean, goc, others>>

\* cli.py lines 272-278: the exit code of the push command
ExitCode(st) == IF st.rows_failed > 0 THEN 1 ELSE 0

\* lines 261-265: a cancellation (CancelledError, KeyboardInterrupt) raised
\* between batches or between chunks unwinds through the finally block and
\* leaves push without reaching the return
Cancel ==
    /\ pc \in {"batch", "chunk"}
    /\ LET st == mark_sync_complete(mem, FinalStatus(stats))
       IN  /\ file' = save(st, file)
           /\ mem' = st
    /\ pc' = "cancelled"
    /\ returned' = FALSE
    /\ ti' = 0
    /\ loc' = NoLoc
    /\ chunks' = <<>>
    /\ UNCHANGED <<run, cfg, src, stats, sent, acked, failedRun, plain, clean,
                   remote,
                   goc, others>>

\* the process is killed: memory is lost, the file stays as last written
Crash ==
    /\ pc \in Running
    /\ pc' = "crashed"
    /\ mem' = NoState
    /\ ti' = 0
    /\ loc' = NoLoc
    /\ chunks' = <<>>
    /\ stats' = NoStats
    /\ acked' = {}
    /\ failedRun' = FALSE
    /\ remote' = NoRemote
    /\ UNCHANGED <<file, run, cfg, src, sent, plain, clean, returned, goc, others>>

Next ==
    \/ \E c \in Configs : StartPush(c)
    \/ \E c \in Configs : PushMissingSource(c)
    \/ SkipTable
    \/ BeginTable
    \/ NextBatch
    \/ EndTable
    \/ CountChunk
    \/ \E o \in Outcomes : ExecChunk(o)
    \/ \E torn \in BOOLEAN : EndBatch(torn)
    \/ \E torn \in BOOLEAN, mismatch \in SUBSET TableSet :
          FinishPush(torn, mismatch)
    \/ Cancel
    \/ Crash

Spec == Init /\ [][Next]_vars

\* ------------------------------------------------------------------------
\* StateManager.get_or_create_state on its own: every combination of a state
\* file and of the arguments of one call
\* ------------------------------------------------------------------------
Operations == {"push", "pull"}
Sources == {Source, "other.db"}
Destinations == {Destination, "other@cloudflare"}
Statuses == {"in_progress", "completed", "failed", "interrupted"}
Hashes == {"", "h1", "h2"}

\* a state written by an earlier sync that had got to offset 2 of users
StoredState(operation, source, destination, status, settings_hash) ==
    [SyncState(operation, source, destination, settings_hash) EXCEPT
        !.status = status,
        !.tables = [t \in {"users"} |->
                      [TableProgress(MaxRows) EXCEPT
                          !.processed_rows = 2, !.last_offset = 2,
                          !.status = "in_progress"]],
        !.total_rows_processed = 2]

StoredFiles ==
    {AbsentFile, TruncatedFile, MalformedFile} \cup
    {ValidFile(StoredState(o, s, d, st, h)) :
        o \in Operations, s \in Sources, d \in Destinations,
        st \in Statuses, h \in Hashes}

InitGoc ==
    /\ goc \in [file : StoredFiles, operation : Operations, source : Sources,
                destination : Destinations, settings_hash : Hashes,
                called : {FALSE}, raised : {FALSE}, result : {NoState}]
    /\ ck = CkIdle
    /\ rq = RqIdle
    /\ ts = TsIdle
    /\ db = DbIdle
    /\ remote = NoRemote
    /\ fr = FrIdle
    /\ fm = FmIdle
    /\ ev = EvIdle
    /\ pl = PlIdle
    /\ it = ItIdle
    /\ im = ImIdle
    /\ tf = TfIdle
    /\ file = goc.file
    /\ mem = NoState
    /\ pc = "idle"
    /\ run = 0
    /\ cfg = NoCfg
    /\ src = [t \in TableSet |-> MaxRows]
    /\ ti = 0
    /\ loc = NoLoc
    /\ chunks = <<>>
    /\ stats = NoStats
    /\ sent = NoneSent
    /\ acked = {}
    /\ failedRun = FALSE
    /\ plain = TRUE
    /\ clean = TRUE
    /\ returned = FALSE

GocCall ==
    /\ ~ goc.called
    /\ LET st == get_or_create_state(file, goc.operation, goc.source,
                                     goc.destination, goc.settings_hash)
       IN  IF load_raises(file)
           THEN /\ goc' = [goc EXCEPT !.called = TRUE, !.raised = TRUE]
                /\ mem' = mem
           ELSE /\ goc' = [goc EXCEPT !.called = TRUE, !.result = st]
                /\ mem' = st
    /\ UNCHANGED <<file, pushVars, others>>

NextGoc == GocCall

SpecGoc == InitGoc /\ [][NextGoc]_vars

\* ------------------------------------------------------------------------
\* chunk_rows on its own: any short list of rows, any start offset
\* ------------------------------------------------------------------------
MaxLen == 3
MaxStart == 1

\* serialized sizes a row can have: small ones, one that fits the ceiling only
\* without the statement overhead, one above the ceiling
RowSizes == {1, 3, 5, 9, 14}

RowLists == UNION {[1..n -> RowSizes] : n \in 0..MaxLen}

InitChunk ==
    /\ ck \in [sizes : RowLists, start_offset : 0..MaxStart,
               called : {FALSE}, out : {<<>>}]
    /\ goc = GocIdle
    /\ rq = RqIdle
    /\ ts = TsIdle
    /\ db = DbIdle
    /\ remote = NoRemote
    /\ fr = FrIdle
    /\ fm = FmIdle
    /\ ev = EvIdle
    /\ pl = PlIdle
    /\ it = ItIdle
    /\ im = ImIdle
    /\ tf = TfIdle
    /\ file = AbsentFile
    /\ mem = NoState
    /\ pc = "idle"
    /\ run = 0
    /\ cfg = NoCfg
    /\ src = [t \in TableSet |-> 0]
    /\ ti = 1
    /\ loc = NoLoc
    /\ chunks = <<>>
    /\ stats = NoStats
    /\ sent = NoneSent
    /\ acked = {}
    /\ failedRun = FALSE
    /\ plain = TRUE
    /\ clean = TRUE
    /\ returned = FALSE

ChunkCall ==
    /\ ~ ck.called
    /\ ck' = [ck EXCEPT !.called = TRUE,
                        !.out = chunk_rows(ck.sizes, ck.start_offset)]
    /\ UNCHANGED <<file, mem, pushVars, goc, rq, ts, db, it, im, tf,
                   fr, fm, ev, pl>>

NextChunk == ChunkCall

SpecChunk == InitChunk /\ [][NextChunk]_vars

\* ------------------------------------------------------------------------
\* connectors/d1_client.py : one D1Client.execute call against a server whose
\* answer to each HTTP attempt is scripted
\* ------------------------------------------------------------------------
max_retries == 3
retry_delay == 1

\* the Retry-After header of a 429: absent, or a number of seconds
RetryAfters == {NONE, 1, 30}

\* what one HTTP attempt can meet:
\*   "429"       status 429
\*   "transport" httpx.TransportError (connect, read, timeout)
\*   "ok"        a body with success: true
\*   "bodyfail"  a body with success: false and a non-empty errors list
\*   "noerrors"  a body with success: false and no errors
\*   "garbage"   a body that is not JSON
Responses ==
    [kind : {"429"}, retry_after : RetryAfters] \cup
    [kind : {"transport", "ok", "bodyfail", "noerrors", "garbage"},
     retry_after : {NONE}]

Scripts == [1..max_retries -> Responses]

\* int(response.headers.get("Retry-After", "60"))
retry_after_fixed(h) == 60
retry_after(h) == IF h = NONE THEN 60 ELSE h

\* not data.get("success", True), with a non-empty errors list
body_error_never(resp) == FALSE
body_error(resp) == resp.kind = "bodyfail"

\* except D1Error in execute: the class and its subclasses
caught_base(exc) == exc = "D1Error"
caught(exc) ==
    exc \in {"D1Error", "D1RateLimitError", "D1StatementTooLongError",
             "D1QueryTimeoutError"}

\* execute's outcome when _request raises exc: a failure result if the
\* exception is caught, else the exception goes on to the caller
Raise(exc, error, delay) ==
    IF caught(exc)
    THEN [rq EXCEPT !.pc = "done", !.attempts = @ + 1,
                    !.result = [success |-> FALSE, error |-> error,
                                delay |-> delay]]
    ELSE [rq EXCEPT !.pc = "raised", !.attempts = @ + 1, !.exc = exc]

\* sleep and continue with the next attempt
Retry(seconds) ==
    [rq EXCEPT !.attempt = @ + 1, !.attempts = @ + 1,
               !.sleeps = Append(@, seconds)]

\* the response to the attempt about to be made
Response == rq.script[rq.attempt + 1]

InitReq ==
    /\ rq \in [script : Scripts, pc : {"attempt"}, attempt : {0},
               attempts : {0}, sleeps : {<<>>}, result : {NoResult},
               exc : {""}]
    /\ goc = GocIdle
    /\ ck = CkIdle
    /\ ts = TsIdle
    /\ db = DbIdle
    /\ remote = NoRemote
    /\ fr = FrIdle
    /\ fm = FmIdle
    /\ ev = EvIdle
    /\ pl = PlIdle
    /\ it = ItIdle
    /\ im = ImIdle
    /\ tf = TfIdle
    /\ file = AbsentFile
    /\ mem = NoState
    /\ pc = "idle"
    /\ run = 0
    /\ cfg = NoCfg
    /\ src = [t \in TableSet |-> 0]
    /\ ti = 1
    /\ loc = NoLoc
    /\ chunks = <<>>
    /\ stats = NoStats
    /\ sent = NoneSent
    /\ acked = {}
    /\ failedRun = FALSE
    /\ plain = TRUE
    /\ clean = TRUE
    /\ returned = FALSE

\* lines 209-214: status 429
RateLimited ==
    /\ rq.pc = "attempt"
    /\ Response.kind = "429"
    /\ LET seconds == retry_after(Response.retry_after)
       IN  rq' = IF rq.attempt < max_retries - 1
                 THEN Retry(seconds)
                 ELSE Raise("D1RateLimitError", "Rate limit exceeded", seconds)
    /\ UNCHANGED <<file, mem, pushVars, goc, ck, ts, db, it, im, tf,
                   fr, fm, ev, pl>>

\* lines 240-244: the request raised httpx.TransportError
TransportFailed ==
    /\ rq.pc = "attempt"
    /\ Response.kind = "transport"
    /\ rq' = IF rq.attempt < max_retries - 1
             THEN Retry(retry_delay * (rq.attempt + 1))
             ELSE Raise("D1Error", "Connection error", NONE)
    /\ UNCHANGED <<file, mem, pushVars, goc, ck, ts, db, it, im, tf,
                   fr, fm, ev, pl>>

\* lines 217-236: a body that reports failure with an error
BodyFailed ==
    /\ rq.pc = "attempt"
    /\ Response.kind \in {"bodyfail", "noerrors"}
    /\ body_error(Response)
    /\ rq' = Raise("D1Error", "message of errors[0]", NONE)
    /\ UNCHANGED <<file, mem, pushVars, goc, ck, ts, db, it, im, tf,
                   fr, fm, ev, pl>>

\* line 217: response.json() on a body that is not JSON
BodyUnparsed ==
    /\ rq.pc = "attempt"
    /\ Response.kind = "garbage"
    /\ rq' = Raise("JSONDecodeError", "", NONE)
    /\ UNCHANGED <<file, mem, pushVars, goc, ck, ts, db, it, im, tf,
                   fr, fm, ev, pl>>

\* line 238 and execute lines 276-288: data returned, a success result
Responded ==
    /\ rq.pc = "attempt"
    /\ Response.kind \in {"ok", "bodyfail", "noerrors"}
    /\ ~ body_error(Response)
    /\ rq' = [rq EXCEPT !.pc = "done", !.attempts = @ + 1,
                        !.result = [success |-> TRUE, error |-> "",
                                    delay |-> NONE]]
    /\ UNCHANGED <<file, mem, pushVars, goc, ck, ts, db, it, im, tf,
                   fr, fm, ev, pl>>

NextReq ==
    \/ RateLimited
    \/ TransportFailed
    \/ BodyFailed
    \/ BodyUnparsed
    \/ Responded

SpecReq == InitReq /\ [][NextReq]_vars

\* ------------------------------------------------------------------------
\* connectors/sqlite.py : get_tables / _sort_tables_by_dependencies
\* A table is its rank in the ORDER BY name of get_tables' query.
\* ------------------------------------------------------------------------
SortNames == <<"orders", "products", "users">>
SortTables == 1..Len(SortNames)

\* how a CREATE TABLE statement declares a reference to another table:
\*   "constraint"  FOREIGN KEY (col) REFERENCES other (col)
\*   "column"      col INTEGER REFERENCES other (col)
RefForms == {"none", "constraint", "column"}

\* the schemas: which tables exist, and for every pair how the first's
\* CREATE TABLE statement references the second
Schemas == [listed : SUBSET SortTables \ {{}},
            refs : [SortTables \X SortTables -> RefForms]]

\* the regular expression of line 217 matches the FOREIGN KEY (...) form
fk_matches(refs, t) == {u \in SortTables : refs[<<t, u>>] = "constraint"}

\* lines 212-226: the dependencies of a table
dependencies(listed, refs, t) ==
    {u \in fk_matches(refs, t) : u \in listed /\ u # t}

Smallest(S) == CHOOSE x \in S : \A y \in S : x <= y

\* sorted(S) appended to a list, leaving out what the list already holds
RECURSIVE AppendSorted(_, _)
AppendSorted(sorted_tables, S) ==
    IF S = {} THEN sorted_tables
    ELSE LET name == Smallest(S)
             held == {sorted_tables[k] : k \in 1..Len(sorted_tables)}
         IN  AppendSorted(IF name \in held THEN sorted_tables
                          ELSE Append(sorted_tables, name), S \ {name})

\* lines 228-258: Kahn's algorithm. remaining_tables: the dependencies left
\* for each key still held; ready: the tables found free and not yet popped
RECURSIVE KahnLoop(_, _, _)
KahnLoop(sorted_tables, remaining_tables, ready) ==
    IF ready = {}
    THEN AppendSorted(sorted_tables, DOMAIN remaining_tables)
    ELSE LET table_name == Smallest(ready)
             held == {sorted_tables[k] : k \in 1..Len(sorted_tables)}
             freed == {name \in DOMAIN remaining_tables :
                          remaining_tables[name] = {table_name}}
         IN  KahnLoop(IF table_name \in held THEN sorted_tables
                      ELSE Append(sorted_tables, table_name),
                      [name \in (DOMAIN remaining_tables) \ freed |->
                          remaining_tables[name] \ {table_name}],
                      (ready \ {table_name}) \cup freed)

sort_tables_by_dependencies(listed, refs) ==
    LET remaining_tables == [t \in listed |-> dependencies(listed, refs, t)]
    IN  KahnLoop(<<>>, remaining_tables,
                 {name \in listed : remaining_tables[name] = {}})

InitSort ==
    /\ \E sch \in Schemas :
           ts = [listed |-> sch.listed, refs |-> sch.refs, called |-> FALSE,
                 out |-> <<>>]
    /\ goc = GocIdle
    /\ ck = CkIdle
    /\ rq = RqIdle
    /\ db = DbIdle
    /\ remote = NoRemote
    /\ fr = FrIdle
    /\ fm = FmIdle
    /\ ev = EvIdle
    /\ pl = PlIdle
    /\ it = ItIdle
    /\ im = ImIdle
    /\ tf = TfIdle
    /\ file = AbsentFile
    /\ mem = NoState
    /\ pc = "idle"
    /\ run = 0
    /\ cfg = NoCfg
    /\ src = [t \in TableSet |-> 0]
    /\ ti = 1
    /\ loc = NoLoc
    /\ chunks = <<>>
    /\ stats = NoStats
    /\ sent = NoneSent
    /\ acked = {}
    /\ failedRun = FALSE
    /\ plain = TRUE
    /\ clean = TRUE
    /\ returned = FALSE

\* get_tables: the tables in the order push and pull process them
GetTables ==
    /\ ~ ts.called
    /\ ts' = [ts EXCEPT !.called = TRUE,
                        !.out = sort_tables_by_dependencies(ts.listed, ts.refs)]
    /\ UNCHANGED <<file, mem, pushVars, goc, ck, rq, db, it, im, tf,
                   fr, fm, ev, pl>>

NextSort == GetTables

SpecSort == InitSort /\ [][NextSort]_vars

\* ------------------------------------------------------------------------
\* connectors/sqlite.py : the write operations of a SQLiteConnector, on a
\* database of one table
\* ------------------------------------------------------------------------
MaxDbRows == 3

\* the database: whether the table exists, and how many rows it holds
Contents ==
    {NoTable} \cup [exists : {TRUE}, nrows : 0..MaxDbRows]

\* the statements given to execute_sql
Statements == {"CREATE", "DROP", "DELETE"}

\* what SQLite does with a statement on a writable connection: the contents
\* after it, the error it raises if any, and the cursor's rowcount
Outcome(contents, raised, result) ==
    [contents |-> contents, raised |-> raised, result |-> result]

RunStatement(contents, sql) ==
    CASE sql = "CREATE" ->
             IF contents.exists
             THEN Outcome(contents, "OperationalError", NONE)
             ELSE Outcome([exists |-> TRUE, nrows |-> 0], "", NONE)
      [] sql = "DROP" -> Outcome(NoTable, "", NONE)
      [] sql = "DELETE" ->
             IF contents.exists
             THEN Outcome([contents EXCEPT !.nrows = 0], "", contents.nrows)
             ELSE Outcome(contents, "OperationalError", NONE)

RunInsert(contents, n) ==
    IF contents.exists
    THEN Outcome([contents EXCEPT !.nrows = @ + n], "", n)
    ELSE Outcome(contents, "OperationalError", NONE)

ReadOnlyError(contents) == Outcome(contents, "RuntimeError", NONE)

\* lines 392-409
execute_sql(readonly, contents, sql) ==
    IF readonly THEN ReadOnlyError(contents)
    ELSE RunStatement(contents, sql)

\* lines 411-432
execute_many(readonly, contents, n) ==
    IF readonly THEN ReadOnlyError(contents)
    ELSE RunInsert(contents, n)

\* lines 434-462; n: the number of rows given
insert_rows(readonly, contents, n) ==
    IF n = 0 THEN Outcome(contents, "", 0)
    ELSE execute_many(readonly, contents, n)

\* lines 464-466
create_table(readonly, contents) == execute_sql(readonly, contents, "CREATE")

\* lines 468-470
drop_table(readonly, contents) == execute_sql(readonly, contents, "DROP")

\* the connector after a call of op on arg with the given outcome
Called(op, arg, o) ==
    [db EXCEPT !.before = db.contents, !.contents = o.contents,
               !.last = [op |-> op, arg |-> arg, raised |-> o.raised,
                         result |-> o.result]]

InitDb ==
    /\ db \in [readonly : BOOLEAN, contents : Contents, before : {NoTable},
               last : {NoCall}]
    /\ goc = GocIdle
    /\ ck = CkIdle
    /\ rq = RqIdle
    /\ ts = TsIdle
    /\ remote = NoRemote
    /\ fr = FrIdle
    /\ fm = FmIdle
    /\ ev = EvIdle
    /\ pl = PlIdle
    /\ it = ItIdle
    /\ im = ImIdle
    /\ tf = TfIdle
    /\ file = AbsentFile
    /\ mem = NoState
    /\ pc = "idle"
    /\ run = 0
    /\ cfg = NoCfg
    /\ src = [t \in TableSet |-> 0]
    /\ ti = 1
    /\ loc = NoLoc
    /\ chunks = <<>>
    /\ stats = NoStats
    /\ sent = NoneSent
    /\ acked = {}
    /\ failedRun = FALSE
    /\ plain = TRUE
    /\ clean = TRUE
    /\ returned = FALSE

ExecuteSql(sql) ==
    /\ db' = Called("execute_sql", sql, execute_sql(db.readonly, db.contents, sql))
    /\ UNCHANGED <<file, mem, pushVars, goc, ck, rq, ts, it, im, tf,
                   fr, fm, ev, pl>>

ExecuteMany(n) ==
    /\ db.contents.nrows + n <= MaxDbRows
    /\ db' = Called("execute_many", n, execute_many(db.readonly, db.contents, n))
    /\ UNCHANGED <<file, mem, pushVars, goc, ck, rq, ts, it, im, tf,
                   fr, fm, ev, pl>>

InsertRows(n) ==
    /\ db.contents.nrows + n <= MaxDbRows
    /\ db' = Called("insert_rows", n, insert_rows(db.readonly, db.contents, n))
    /\ UNCHANGED <<file, mem, pushVars, goc, ck, rq, ts, it, im, tf,
                   fr, fm, ev, pl>>

CreateTable ==
    /\ db' = Called("create_table", "", create_table(db.readonly, db.contents))
    /\ UNCHANGED <<file, mem, pushVars, goc, ck, rq, ts, it, im, tf,
                   fr, fm, ev, pl>>

DropTable ==
    /\ db' = Called("drop_table", "", drop_table(db.readonly, db.contents))
    /\ UNCHANGED <<file, mem, pushVars, goc, ck, rq, ts, it, im, tf,
                   fr, fm, ev, pl>>

NextDb ==
    \/ \E sql \in Statements : ExecuteSql(sql)
    \/ \E n \in 0..MaxDbRows : ExecuteMany(n)
    \/ \E n \in 0..MaxDbRows : InsertRows(n)
    \/ CreateTable
    \/ DropTable

SpecDb == InitDb /\ [][NextDb]_vars

\* ------------------------------------------------------------------------
\* connectors/d1_client.py : one D1Client.import_sql call; the server's answer
\* to each request is chosen when the request is made. Time is in ticks.
\* ------------------------------------------------------------------------
PollIntervals == {0, 2}
MaxWaits == {0, 4}

\* the time one poll request takes (retries and their sleeps included)
Durations == {1, 2}

\* _init_import: a result with an upload URL, a result without, a D1Error
InitAnswers == {"url", "nourl", "error"}

\* _upload_to_r2: the status of the PUT, or 0 for an httpx.TransportError
UploadAnswers == {200, 201, 204, 500, 0}

\* _start_ingestion: success true, success false or missing, a D1Error
IngestAnswers == {"success", "nosuccess", "error"}

\* _poll_import_status: the status of the result, or a D1Error
\* "unknown" is a status outside the ImportStatus enumeration, "error" a
\* D1Error raised by the request
PollAnswers ==
    {"pending", "processing", "complete", "failed", "error", "unknown"}

upload_ok_any(status) == TRUE
\* line 445: response.status_code in (200, 201)
upload_ok(status) == status \in {200, 201}

\* lines 485-512: what a poll's answer means for the loop; ImportStatus(s)
\* raises ValueError for a string that is no member of the enumeration
poll_result(answer) ==
    CASE answer = "complete" -> "complete"
      [] answer \in {"failed", "error"} -> "failed"
      [] answer \in {"pending", "processing"} -> "again"
      [] OTHER -> "raise"

ImportResult(success, status, error) ==
    [success |-> success, status |-> status, error |-> error]

\* the request made and the answer it got, appended to the log
Logged(step, answer) == Append(im.log, [step |-> step, answer |-> answer])

InitImport ==
    /\ im \in [poll_interval : PollIntervals, max_wait : MaxWaits,
               pc : {"init"}, log : {<<>>}, elapsed : {0},
               result : {NoImport}]
    /\ goc = GocIdle
    /\ ck = CkIdle
    /\ rq = RqIdle
    /\ ts = TsIdle
    /\ db = DbIdle
    /\ remote = NoRemote
    /\ fr = FrIdle
    /\ fm = FmIdle
    /\ ev = EvIdle
    /\ pl = PlIdle
    /\ it = ItIdle
    /\ tf = TfIdle
    /\ file = AbsentFile
    /\ mem = NoState
    /\ pc = "idle"
    /\ run = 0
    /\ cfg = NoCfg
    /\ src = [t \in TableSet |-> 0]
    /\ ti = 1
    /\ loc = NoLoc
    /\ chunks = <<>>
    /\ stats = NoStats
    /\ sent = NoneSent
    /\ acked = {}
    /\ failedRun = FALSE
    /\ plain = TRUE
    /\ clean = TRUE
    /\ returned = FALSE

\* lines 378-385: step 1, init
ImportInit(answer) ==
    /\ im.pc = "init"
    /\ im' = IF answer = "url"
             THEN [im EXCEPT !.pc = "upload", !.log = Logged("init", answer)]
             ELSE [im EXCEPT !.pc = "done", !.log = Logged("init", answer),
                             !.result = ImportResult(FALSE, "failed",
                                            "Failed to get upload URL")]
    /\ UNCHANGED <<file, mem, pushVars, goc, ck, rq, ts, db, it, tf,
                   fr, fm, ev, pl>>

\* lines 390-398: step 2, upload
ImportUpload(answer) ==
    /\ im.pc = "upload"
    /\ im' = IF upload_ok(answer)
             THEN [im EXCEPT !.pc = "ingest", !.log = Logged("upload", answer)]
             ELSE [im EXCEPT !.pc = "done", !.log = Logged("upload", answer),
                             !.result = ImportResult(FALSE, "failed",
                                            "Failed to upload to R2")]
    /\ UNCHANGED <<file, mem, pushVars, goc, ck, rq, ts, db, it, tf,
                   fr, fm, ev, pl>>

\* lines 400-408: step 3, ingest
ImportIngest(answer) ==
    /\ im.pc = "ingest"
    /\ im' = IF answer = "success"
             THEN [im EXCEPT !.pc = "poll", !.log = Logged("ingest", answer)]
             ELSE [im EXCEPT !.pc = "done", !.log = Logged("ingest", answer),
                             !.result = ImportResult(FALSE, "failed",
                                            "Failed to start ingestion")]
    /\ UNCHANGED <<file, mem, pushVars, goc, ck, rq, ts, db, it, tf,
                   fr, fm, ev, pl>>

\* lines 482-512: one turn of the polling loop
ImportPoll(answer, d) ==
    /\ im.pc = "poll"
    /\ im.elapsed < im.max_wait
    /\ im' = CASE poll_result(answer) = "complete" ->
                  [im EXCEPT !.pc = "done", !.log = Logged("poll", answer),
                             !.result = ImportResult(TRUE, "complete", "")]
               [] poll_result(answer) = "failed" ->
                  [im EXCEPT !.pc = "done", !.log = Logged("poll", answer),
                             !.result = ImportResult(FALSE, "failed", answer)]
               [] poll_result(answer) = "raise" ->
                  [im EXCEPT !.pc = "raised", !.log = Logged("poll", answer)]
               [] OTHER ->
                  [im EXCEPT !.log = Logged("poll", answer),
                             !.elapsed = @ + d + im.poll_interval]
    /\ UNCHANGED <<file, mem, pushVars, goc, ck, rq, ts, db, it, tf,
                   fr, fm, ev, pl>>

\* lines 482, 514-519: the budget has elapsed
ImportTimeout ==
    /\ im.pc = "poll"
    /\ ~ (im.elapsed < im.max_wait)
    /\ im' = [im EXCEPT !.pc = "done",
                        !.result = ImportResult(FALSE, "failed",
                                                "Import timed out")]
    /\ UNCHANGED <<file, mem, pushVars, goc, ck, rq, ts, db, it, tf,
                   fr, fm, ev, pl>>

NextImport ==
    \/ \E answer \in InitAnswers : ImportInit(answer)
    \/ \E answer \in UploadAnswers : ImportUpload(answer)
    \/ \E answer \in IngestAnswers : ImportIngest(answer)
    \/ \E answer \in PollAnswers, d \in Durations : ImportPoll(answer, d)
    \/ ImportTimeout

\* the call is not suspended forever: it takes its next step
SpecImport == InitImport /\ [][NextImport]_vars /\ WF_vars(NextImport)

\* ---------------------------------------------------------------------
\* SQLiteConnector.iter_rows (connectors/sqlite.py): the generator's loop,
\* one action per turn. A table is its row count n; limit is NONE or a
\* natural number.
\* ---------------------------------------------------------------------
IterSizes == 0..4
IterBatchSizes == 1..3
IterOffsets == 0..5
IterLimits == {NONE} \cup 0..5

\* lines 358, 366: `if limit and ...`: None and 0 are both falsy
limit_set(limit) == limit # NONE /\ limit # 0

\* lines 354-359: rows appended by one query LIMIT batch_size OFFSET
\* current_offset; a row is appended before the limit is tested
iter_fetch(n, batch_size, current_offset, rows_fetched, limit) ==
    LET avail == Min(batch_size, Max(0, n - current_offset))
    IN  IF avail = 0 THEN 0
        ELSE IF limit_set(limit)
             THEN Min(avail, Max(1, limit - rows_fetched))
             ELSE avail

InitIter ==
    /\ it \in [n : IterSizes, batch_size : IterBatchSizes,
               offset : IterOffsets, limit : IterLimits, pc : {"loop"},
               current_offset : IterOffsets, rows_fetched : {0},
               batches : {<<>>}]
    /\ it.current_offset = it.offset
    /\ im = ImIdle
    /\ goc = GocIdle
    /\ ck = CkIdle
    /\ rq = RqIdle
    /\ ts = TsIdle
    /\ db = DbIdle
    /\ remote = NoRemote
    /\ fr = FrIdle
    /\ fm = FmIdle
    /\ ev = EvIdle
    /\ pl = PlIdle
    /\ tf = TfIdle
    /\ file = AbsentFile
    /\ mem = NoState
    /\ pc = "idle"
    /\ run = 0
    /\ cfg = NoCfg
    /\ src = [t \in TableSet |-> 0]
    /\ ti = 1
    /\ loc = NoLoc
    /\ chunks = <<>>
    /\ stats = NoStats
    /\ sent = NoneSent
    /\ acked = {}
    /\ failedRun = FALSE
    /\ plain = TRUE
    /\ clean = TRUE
    /\ returned = FALSE

\* lines 349-377: a turn of the loop that yields a batch
IterYield ==
    /\ it.pc = "loop"
    /\ LET k == iter_fetch(it.n, it.batch_size, it.current_offset,
                           it.rows_fetched, it.limit)
       IN  /\ k > 0
           /\ it' = [it EXCEPT
                  !.batches = Append(@, [offset |-> it.current_offset,
                                         len |-> k]),
                  !.current_offset = @ + k,
                  !.rows_fetched = @ + k,
                  !.pc = IF limit_set(it.limit) /\ it.rows_fetched + k >= it.limit
                         THEN "done" ELSE "loop"]
    /\ UNCHANGED <<file, mem, pushVars, goc, ck, rq, ts, db, im, tf,
                   fr, fm, ev, pl>>

\* lines 361-362: the query returned no row, the generator ends
IterEnd ==
    /\ it.pc = "loop"
    /\ iter_fetch(it.n, it.batch_size, it.current_offset,
                  it.rows_fetched, it.limit) = 0
    /\ it' = [it EXCEPT !.pc = "done"]
    /\ UNCHANGED <<file, mem, pushVars, goc, ck, rq, ts, db, im, tf,
                   fr, fm, ev, pl>>

NextIter ==
    \/ IterYield
    \/ IterEnd

SpecIter == InitIter /\ [][NextIter]_vars

\* ---------------------------------------------------------------------
\* Settings.to_file (config.py): the settings are their top-level scalar
\* fields; the nested option groups hold no token and are left out. A
\* written file is its format and the key/value pairs serialised into it.
\* ---------------------------------------------------------------------
Tokens == {"", "tok-a", "tok-b"}
AccountIds == {"", "acct"}
DatabaseNames == {"", "db"}
Tiers == {"free", "paid"}
Suffixes == {".json", ".toml", ".tml", ".yaml"}
REDACTED == "***REDACTED***"

\* how a SecretStr is serialised by model_dump(mode="json")
secret_display(token) == IF token = "" THEN "" ELSE "**********"

\* line 349: self.model_dump(mode="json", exclude_none=True)
model_dump(settings) ==
    << <<"cloudflare_api_token", secret_display(settings.cloudflare_api_token)>>,
       <<"cloudflare_account_id", settings.cloudflare_account_id>>,
       <<"database_name", settings.database_name>>,
       <<"tier", settings.tier>> >>

mask_none(data) == data
\* lines 351-353: the token's entry is replaced by the marker
mask(data) ==
    [k \in DOMAIN data |->
        IF data[k][1] = "cloudflare_api_token"
        THEN <<data[k][1], REDACTED>> ELSE data[k]]

\* lines 355-369: TOML for .toml and .tml, JSON for every other suffix
file_format(suffix) == IF suffix \in {".toml", ".tml"} THEN "toml" ELSE "json"

to_file(settings, suffix) ==
    [format |-> file_format(suffix), data |-> mask(model_dump(settings))]

InitCfg ==
    /\ tf \in [called : {FALSE},
               settings : [cloudflare_api_token : Tokens,
                           cloudflare_account_id : AccountIds,
                           database_name : DatabaseNames,
                           tier : Tiers],
               suffix : Suffixes,
               content : {[format |-> "", data |-> <<>>]}]
    /\ it = ItIdle
    /\ im = ImIdle
    /\ goc = GocIdle
    /\ ck = CkIdle
    /\ rq = RqIdle
    /\ ts = TsIdle
    /\ db = DbIdle
    /\ remote = NoRemote
    /\ fr = FrIdle
    /\ fm = FmIdle
    /\ ev = EvIdle
    /\ pl = PlIdle
    /\ file = AbsentFile
    /\ mem = NoState
    /\ pc = "idle"
    /\ run = 0
    /\ cfg = NoCfg
    /\ src = [t \in TableSet |-> 0]
    /\ ti = 1
    /\ loc = NoLoc
    /\ chunks = <<>>
    /\ stats = NoStats
    /\ sent = NoneSent
    /\ acked = {}
    /\ failedRun = FALSE
    /\ plain = TRUE
    /\ clean = TRUE
    /\ returned = FALSE

\* lines 346-369: settings.to_file(path)
ToFile ==
    /\ ~ tf.called
    /\ tf' = [tf EXCEPT !.called = TRUE,
                        !.content = to_file(tf.settings, tf.suffix)]
    /\ UNCHANGED <<file, mem, pushVars, goc, ck, rq, ts, db, it, im,
                   fr, fm, ev, pl>>

NextCfg == ToFile

SpecCfg == InitCfg /\ [][NextCfg]_vars

\* ---------------------------------------------------------------------
\* StateManager.record_failed_row (core/state.py) on a state that starts
\* without failed rows; a FailedRow is its table, row_offset, error and
\* retry_count (row_data and timestamp carry no decision)
\* ---------------------------------------------------------------------
MaxCalls == 3
FailedOffsets == 0..1
FailedErrors == {"e1", "e2"}

\* index of the first record of (table, offset) in rows, 0 if there is none
first_recorded(rows, table, offset) ==
    LET found == {k \in 1..Len(rows) :
                     rows[k].table = table /\ rows[k].row_offset = offset}
    IN  IF found = {} THEN 0
        ELSE CHOOSE k \in found : \A j \in found : k <= j

record_failed_row_append(rows, table, offset, error) ==
    Append(rows, [table |-> table, row_offset |-> offset, error |-> error,
                  retry_count |-> 0])
\* lines 354-372
record_failed_row(rows, table, offset, error) ==
    LET k == first_recorded(rows, table, offset)
    IN  IF k > 0
        THEN [rows EXCEPT ![k].retry_count = @ + 1, ![k].error = error]
        ELSE Append(rows, [table |-> table, row_offset |-> offset,
                           error |-> error, retry_count |-> 0])

InitFailed ==
    /\ fr = [rows |-> <<>>, before |-> <<>>, calls |-> 0,
             table |-> "", offset |-> 0, error |-> ""]
    /\ goc = GocIdle
    /\ ck = CkIdle
    /\ rq = RqIdle
    /\ ts = TsIdle
    /\ db = DbIdle
    /\ remote = NoRemote
    /\ it = ItIdle
    /\ im = ImIdle
    /\ tf = TfIdle
    /\ fm = FmIdle
    /\ ev = EvIdle
    /\ pl = PlIdle
    /\ file = AbsentFile
    /\ mem = NoState
    /\ pc = "idle"
    /\ run = 0
    /\ cfg = NoCfg
    /\ src = [t \in TableSet |-> 0]
    /\ ti = 1
    /\ loc = NoLoc
    /\ chunks = <<>>
    /\ stats = NoStats
    /\ sent = NoneSent
    /\ acked = {}
    /\ failedRun = FALSE
    /\ plain = TRUE
    /\ clean = TRUE
    /\ returned = FALSE

\* one call record_failed_row(table, offset, row_data, error)
RecordFailedRow(table, offset, error) ==
    /\ fr.calls < MaxCalls
    /\ fr' = [rows |-> record_failed_row(fr.rows, table, offset, error),
              before |-> fr.rows, calls |-> fr.calls + 1,
              table |-> table, offset |-> offset, error |-> error]
    /\ UNCHANGED <<file, mem, pushVars, goc, ck, rq, ts, db, it, im,
                   tf, fm, ev, pl>>

NextFailed ==
    \E table \in TableSet, offset \in FailedOffsets, error \in FailedErrors :
        RecordFailedRow(table, offset, error)

SpecFailed == InitFailed /\ [][NextFailed]_vars

\* ---------------------------------------------------------------------
\* IntegrityChecker.find_mismatches (core/integrity.py). A row is its key
\* (the value of key_column) and its row_checksum; a dict is the sequence of
\* its items in insertion order, as Python iterates it.
\* ---------------------------------------------------------------------
MaxSideRows == 2
Keys == <<"a", "b">>
Checksums == {1, 2}
SideRows == [key : {Keys[i] : i \in 1..Len(Keys)}, checksum : Checksums]
RowSeqs == UNION {[1..n -> SideRows] : n \in 0..MaxSideRows}

\* position of a key among the items of a dict, 0 if it is no key of it
dict_index(d, key) ==
    IF \E k \in 1..Len(d) : d[k].key = key
    THEN CHOOSE k \in 1..Len(d) : d[k].key = key
    ELSE 0

\* d[key] = value: a new key goes last, a known key keeps its position
dict_set(d, key, value) ==
    IF dict_index(d, key) > 0
    THEN [d EXCEPT ![dict_index(d, key)].checksum = value]
    ELSE Append(d, [key |-> key, checksum |-> value])

\* del d[key]
dict_del(d, key) ==
    LET k == dict_index(d, key)
    IN  [j \in 1..(Len(d) - 1) |-> IF j < k THEN d[j] ELSE d[j + 1]]

\* lines 162-166: dest_map, built from the destination rows i..
RECURSIVE build_dest_map(_, _, _)
build_dest_map(dest_rows, i, d) ==
    IF i > Len(dest_rows) THEN d
    ELSE build_dest_map(dest_rows, i + 1,
                        dict_set(d, dest_rows[i].key, dest_rows[i].checksum))

Mismatch(type, key) == [type |-> type, key |-> key]

\* lines 169-187: the loop over the source rows i.., which gives the
\* mismatches found and what is left of dest_map
RECURSIVE check_source(_, _, _, _)
check_source(source_rows, i, d, out) ==
    IF i > Len(source_rows) THEN [mismatches |-> out, dest_map |-> d]
    ELSE LET row == source_rows[i]
             k == dict_index(d, row.key)
         IN  IF k = 0
             THEN check_source(source_rows, i + 1, d,
                      Append(out, Mismatch("missing_in_dest", row.key)))
             ELSE check_source(source_rows, i + 1, dict_del(d, row.key),
                      IF row.checksum # d[k].checksum
                      THEN Append(out, Mismatch("checksum_mismatch", row.key))
                      ELSE out)

\* lines 190-195: one extra_in_dest per item left in dest_map, in the
\* dict's iteration order
extras(d) == [k \in 1..Len(d) |-> Mismatch("extra_in_dest", d[k].key)]

find_mismatches(source_rows, dest_rows) ==
    LET checked == check_source(source_rows, 1,
                                build_dest_map(dest_rows, 1, <<>>), <<>>)
    IN  checked.mismatches \o extras(checked.dest_map)

InitMismatch ==
    /\ fm \in [source_rows : RowSeqs, dest_rows : RowSeqs, called : {FALSE},
               out : {<<>>}]
    /\ goc = GocIdle
    /\ ck = CkIdle
    /\ rq = RqIdle
    /\ ts = TsIdle
    /\ db = DbIdle
    /\ remote = NoRemote
    /\ it = ItIdle
    /\ im = ImIdle
    /\ tf = TfIdle
    /\ fr = FrIdle
    /\ ev = EvIdle
    /\ pl = PlIdle
    /\ file = AbsentFile
    /\ mem = NoState
    /\ pc = "idle"
    /\ run = 0
    /\ cfg = NoCfg
    /\ src = [t \in TableSet |-> 0]
    /\ ti = 1
    /\ loc = NoLoc
    /\ chunks = <<>>
    /\ stats = NoStats
    /\ sent = NoneSent
    /\ acked = {}
    /\ failedRun = FALSE
    /\ plain = TRUE
    /\ clean = TRUE
    /\ returned = FALSE

FindMismatches ==
    /\ ~ fm.called
    /\ fm' = [fm EXCEPT !.called = TRUE,
                        !.out = find_mismatches(fm.source_rows, fm.dest_rows)]
    /\ UNCHANGED <<file, mem, pushVars, goc, ck, rq, ts, db, it, im,
                   tf, fr, ev, pl>>

NextMismatch == FindMismatches

SpecMismatch == InitMismatch /\ [][NextMismatch]_vars

\* ---------------------------------------------------------------------
\* SQLChunker.escape_value (core/chunker.py) on text values; a text is the
\* sequence of its characters, "NUL" standing for the character \x00
\* ---------------------------------------------------------------------
MaxText == 4
Chars == {"a", "'", "NUL"}
Texts == UNION {[1..n -> Chars] : n \in 0..MaxText}

\* str.replace(old, new) for a one-character old and a sequence new
RECURSIVE replace(_, _, _)
replace(s, old, new) ==
    IF s = <<>> THEN <<>>
    ELSE (IF Head(s) = old THEN new ELSE <<Head(s)>>)
         \o replace(Tail(s), old, new)

double_quotes_none(s) == s
\* line 96: str_val.replace("'", "''")
double_quotes(s) == replace(s, "'", <<"'", "'">>)

\* line 100: escaped.replace("\x00", "")
remove_nul(s) == replace(s, "NUL", <<>>)

\* lines 93-102, the branch of a str value
escape_value(value) == <<"'">> \o remove_nul(double_quotes(value)) \o <<"'">>

InitEscape ==
    /\ ev \in [value : Texts, called : {FALSE}, out : {<<>>}]
    /\ goc = GocIdle
    /\ ck = CkIdle
    /\ rq = RqIdle
    /\ ts = TsIdle
    /\ db = DbIdle
    /\ remote = NoRemote
    /\ it = ItIdle
    /\ im = ImIdle
    /\ tf = TfIdle
    /\ fr = FrIdle
    /\ fm = FmIdle
    /\ pl = PlIdle
    /\ file = AbsentFile
    /\ mem = NoState
    /\ pc = "idle"
    /\ run = 0
    /\ cfg = NoCfg
    /\ src = [t \in TableSet |-> 0]
    /\ ti = 1
    /\ loc = NoLoc
    /\ chunks = <<>>
    /\ stats = NoStats
    /\ sent = NoneSent
    /\ acked = {}
    /\ failedRun = FALSE
    /\ plain = TRUE
    /\ clean = TRUE
    /\ returned = FALSE

EscapeValue ==
    /\ ~ ev.called
    /\ ev' = [ev EXCEPT !.called = TRUE, !.out = escape_value(ev.value)]
    /\ UNCHANGED <<file, mem, pushVars, goc, ck, rq, ts, db, it, im,
                   tf, fr, fm, pl>>

NextEscape == EscapeValue

SpecEscape == InitEscape /\ [][NextEscape]_vars

\* ---------------------------------------------------------------------
\* SyncEngine.pull (core/engine.py), the loop body for one remote table of
\* n rows; the local database may or may not have the table already
\* ---------------------------------------------------------------------
pull_limit == 1000
RemoteCounts == {0, 1, 1000, 1001, 2500}

NoProgress == [total_rows |-> 0, processed_rows |-> 0, status |-> NoStatus]

InitPull ==
    /\ pl \in [n : RemoteCounts, dry_run : BOOLEAN, table_exists : BOOLEAN,
               pc : {"count"}, count_ok : {TRUE}, fetch_ok : {TRUE},
               fetched : {0}, inserted : {0}, rows_processed : {0},
               progress : {NoProgress}]
    /\ goc = GocIdle
    /\ ck = CkIdle
    /\ rq = RqIdle
    /\ ts = TsIdle
    /\ db = DbIdle
    /\ remote = NoRemote
    /\ it = ItIdle
    /\ im = ImIdle
    /\ tf = TfIdle
    /\ fr = FrIdle
    /\ fm = FmIdle
    /\ ev = EvIdle
    /\ file = AbsentFile
    /\ mem = NoState
    /\ pc = "idle"
    /\ run = 0
    /\ cfg = NoCfg
    /\ src = [t \in TableSet |-> 0]
    /\ ti = 1
    /\ loc = NoLoc
    /\ chunks = <<>>
    /\ stats = NoStats
    /\ sent = NoneSent
    /\ acked = {}
    /\ failedRun = FALSE
    /\ plain = TRUE
    /\ clean = TRUE
    /\ returned = FALSE

\* lines 319-326: d1.get_table_count (0 when its query fails), init_table,
\* status in_progress
PullCount(ok) ==
    /\ pl.pc = "count"
    /\ pl' = [pl EXCEPT
                 !.pc = "fetch",
                 !.count_ok = ok,
                 !.progress = [total_rows |-> IF ok THEN pl.n ELSE 0,
                               processed_rows |-> 0,
                               status |-> "in_progress"]]
    /\ UNCHANGED <<file, mem, pushVars, goc, ck, rq, ts, db, it, im,
                   tf, fr, fm, ev>>

\* lines 334-338: one SELECT * ... LIMIT 1000
PullFetch(ok) ==
    /\ pl.pc = "fetch"
    /\ LET rows == IF ok THEN Min(pl.n, pull_limit) ELSE 0
       IN  pl' = [pl EXCEPT !.fetch_ok = ok,
                           !.fetched = rows,
                           !.pc = IF ok /\ rows > 0 THEN "insert"
                                  ELSE "complete"]
    /\ UNCHANGED <<file, mem, pushVars, goc, ck, rq, ts, db, it, im,
                   tf, fr, fm, ev>>

\* lines 339-352: insert_rows unless dry_run; pull creates no table, so
\* the insert raises when the local database has none
PullInsert ==
    /\ pl.pc = "insert"
    /\ pl' = IF ~ pl.dry_run /\ ~ pl.table_exists
             THEN [pl EXCEPT !.pc = "raised"]
             ELSE [pl EXCEPT
                      !.pc = "complete",
                      !.inserted = IF pl.dry_run THEN 0 ELSE pl.fetched,
                      !.rows_processed = pl.fetched]
    /\ UNCHANGED <<file, mem, pushVars, goc, ck, rq, ts, db, it, im,
                   tf, fr, fm, ev>>

\* lines 354-359: update_table_progress(processed=row_count,
\* status="completed")
PullComplete ==
    /\ pl.pc = "complete"
    /\ pl' = [pl EXCEPT
                 !.pc = "done",
                 !.progress.processed_rows = pl.progress.total_rows,
                 !.progress.status = "completed"]
    /\ UNCHANGED <<file, mem, pushVars, goc, ck, rq, ts, db, it, im,
                   tf, fr, fm, ev>>

NextPull ==
    \/ \E ok \in BOOLEAN : PullCount(ok)
    \/ \E ok \in BOOLEAN : PullFetch(ok)
    \/ PullInsert
    \/ PullComplete

SpecPull == InitPull /\ [][NextPull]_vars

\* ------------------------------------------------------------------------
\* Properties
\* ------------------------------------------------------------------------
RowsOf(t) == {<<t, o>> : o \in 0..(src[t] - 1)}
SourceRows == UNION {RowsOf(t) : t \in TableSet}
Progress(st) == {st.tables[t] : t \in DOMAIN st.tables}

\* C1: after a push that was killed and restarted with resume (every run
\* real and without a row limit, the source unchanged), once the last run has
\* finished every row of every table was dispatched at least once and at most
\* once per run: exactly once without interruption, once or twice with one.
C1_CrashResumeDispatch ==
    (pc = "done" /\ plain) =>
        \A r \in SourceRows : sent[r] >= 1 /\ sent[r] <= run

\* a resumed second run has finished; it re-sent one row and skipped another
C1_Witness ==
    /\ pc = "done" /\ plain /\ run = 2
    /\ \E r \in SourceRows : sent[r] = 2
    /\ \E r \in SourceRows : sent[r] = 1

\* C2: a push interrupted at last_offset = k and resumed, with no failing
\* chunk in either run, finishes every table with processed_rows = n.
C2_ResumeFinalCount ==
    (pc = "done" /\ plain /\ clean /\ run = 2) =>
        \A t \in TableSet :
            t \in DOMAIN mem.tables /\ mem.tables[t].processed_rows = src[t]

\* C3: in a real (not dry) run, every row of the current table between the
\* offset the run started the table at and the recorded last_offset belongs
\* to a chunk whose execute returned success.
C3_OffsetBoundsAcked ==
    (pc \in {"batch", "chunk"} /\ ~ cfg.dry_run) =>
        \A o \in loc.start_offset..(mem.tables[TableNames[ti]].last_offset - 1) :
            <<TableNames[ti], o>> \in acked

\* C4: no step of a run lowers the last_offset of a table.
C4_LastOffsetMonotonic ==
    [][(pc \in Running /\ pc' \in Running \cup {"done", "cancelled"}) =>
          \A t \in DOMAIN mem.tables :
              mem'.tables[t].last_offset >= mem.tables[t].last_offset]_vars

C6_StatusConsistency ==
    \A p \in Progress(mem) :
        /\ p.status = "completed" =>
              (p.processed_rows = p.total_rows /\ p.failed_rows = 0)
        /\ p.status = "failed" => p.failed_rows >= 1

\* C7: when push has finished, the overall status is completed iff no row
\* failed in any table during the run, and failed otherwise.
C7_OverallStatus ==
    pc = "done" =>
        /\ mem.status = (IF failedRun THEN "failed" ELSE "completed")
        /\ file = ValidFile(mem)

\* C8: whatever happens during a save, a load afterwards observes the complete
\* newly written state or what it observed before the save.
C8_AtomicSave ==
    [][file'.kind = "valid" \/ load(file') = load(file)]_vars

\* C9: after a cancellation the saved overall status is interrupted and push
\* has returned its statistics.
C9_CancelInterrupted ==
    pc = "cancelled" =>
        /\ file.kind = "valid"
        /\ file.st.status = "interrupted"
        /\ returned

\* C10: get_or_create_state returns the stored state iff it matches the
\* operation, source and destination, is in_progress and has the settings
\* fingerprint of the call; otherwise it returns a fresh state without tables.
C10_ResumeIff ==
    (goc.called /\ ~ goc.raised) =>
        LET existing == load(goc.file)
            matches == /\ existing # NoState
                       /\ existing.operation = goc.operation
                       /\ existing.source = goc.source
                       /\ existing.destination = goc.destination
                       /\ existing.status = "in_progress"
                       /\ existing.settings_hash = goc.settings_hash
        IN  IF matches THEN goc.result = existing
            ELSE goc.result = SyncState(goc.operation, goc.source,
                                        goc.destination, goc.settings_hash)

\* C11: a state file that exists but does not parse into a state record is
\* treated as absent: get_or_create_state does not raise and returns a fresh
\* state that holds nothing of the file.
C11_CorruptStateNotFatal ==
    (goc.called /\ goc.file.kind \in {"truncated", "malformed"}) =>
        /\ ~ goc.raised
        /\ goc.result = SyncState(goc.operation, goc.source, goc.destination,
                                  goc.settings_hash)

\* the serialized size of the row at offset o of the list given to chunk_rows
CkRowSize(o) == ck.sizes[o - ck.start_offset + 1]

C13_ChunkCoverage ==
    (ck.called /\ Len(ck.sizes) >= 1) =>
        LET out == ck.out
            s == ck.start_offset
            n == Len(ck.sizes)
        IN  /\ Len(out) >= 1
            /\ out[1].start_offset = s
            /\ out[Len(out)].end_offset = s + n - 1
            /\ \A k \in 1..(Len(out) - 1) :
                   out[k + 1].start_offset = out[k].end_offset + 1
            /\ \A k \in 1..Len(out) :
                   /\ out[k].row_count >= 1
                   /\ out[k].row_count = out[k].end_offset - out[k].start_offset + 1
            /\ SumRows([k \in 1..Len(out) |-> out[k].row_count],
                       1..Len(out)) = n

\* a call from a non-zero offset that emitted three chunks
C13_Witness ==
    /\ ck.called
    /\ ck.start_offset > 0
    /\ Len(ck.out) = 3

\* C14: a row whose serialized size exceeds the ceiling is never sent to the
\* remote (it is recorded as a failed row and the sync goes on to the next).
C14_OversizeRowNotSent ==
    \A r \in Rows : RowSize(r[1], r[2]) > MaxSize => sent[r] = 0

\* the script answers 429 to the first k attempts and success to the next
RateLimitedThenOk(k) ==
    /\ \A j \in 1..k : rq.script[j].kind = "429"
    /\ rq.script[k + 1].kind = "ok"

AllAttemptsFail ==
    \A j \in 1..max_retries : rq.script[j].kind \in {"429", "transport"}

C17_BodyFailureNotRetried ==
    \A j \in 1..rq.attempts :
        rq.script[j].kind = "bodyfail" =>
            /\ rq.attempts = j
            /\ rq.pc = "done"
            /\ ~ rq.result.success
            /\ rq.result.error = "message of errors[0]"

\* a body failure met on the third attempt, after two retries
C17_Witness ==
    /\ rq.attempts = 3
    /\ rq.script[3].kind = "bodyfail"
    /\ Len(rq.sleeps) = 2

\* the tables a listed table references in either form, self-references and
\* references to unlisted tables left out
References(t) ==
    {u \in ts.listed : u # t /\ ts.refs[<<t, u>>] # "none"}

\* the tables ready at position k of an order: not placed yet, with every
\* table they depend on placed
ReadyAt(out, deps, k) ==
    LET done == {out[j] : j \in 1..(k - 1)}
    IN  {t \in ts.listed \ done : deps[t] \subseteq done}

\* the order is the one of Kahn's algorithm over deps (table -> the set of
\* tables it depends on), with the smallest ready table taken at each step;
\* from the position where no table is ready on, the tables left follow in
\* ascending order
GreedyOrder(out, deps) ==
    /\ Len(out) = Cardinality(ts.listed)
    /\ \A k \in 1..Len(out) :
           LET done == {out[j] : j \in 1..(k - 1)}
               stuck == \E j \in 1..k : ReadyAt(out, deps, j) = {}
           IN  out[k] = (IF stuck THEN Smallest(ts.listed \ done)
                         ELSE Smallest(ReadyAt(out, deps, k)))

\* the references between the listed tables form a DAG: some order of the
\* tables has every referenced table before the tables that reference it
ReferencesAcyclic ==
    \E o \in [1..Cardinality(ts.listed) -> ts.listed] :
        /\ \A i, j \in DOMAIN o : i # j => o[i] # o[j]
        /\ \A i, j \in DOMAIN o : o[j] \in References(o[i]) => j < i

\* C18: for tables whose references form a DAG, get_tables returns every
\* table once, each referenced table before the tables that reference it,
\* the alphabetically smallest ready table taken at each step.
C18_TopologicalOrder ==
    (ts.called /\ ReferencesAcyclic) =>
        /\ GreedyOrder(ts.out, [t \in ts.listed |-> References(t)])
        /\ \A i, j \in DOMAIN ts.out :
               ts.out[j] \in References(ts.out[i]) => j < i

\* C19: when orders references users in column form and users references
\* nothing, users comes before orders in the list push processes.
C19_ColumnReferenceOrder ==
    (/\ ts.called
     /\ ts.listed = {1, 3}
     /\ ts.refs[<<1, 3>>] = "column"
     /\ ts.refs[<<3, 1>>] = "none") =>
        ts.out = <<3, 1>>

\* C20: on a connector opened read-only every write operation (execute_sql,
\* execute_many, insert_rows, create_table, drop_table) fails with an error
\* and leaves the database contents unchanged.
C20_ReadOnlyRejectsWrites ==
    (db.readonly /\ db.last.op # "none") =>
        /\ db.last.raised # ""
        /\ db.contents = db.before

\* C22: a dry-run push executes no statement on the remote: no schema
\* creation, no data chunk, no verification query.
C22_DryRunNoRemote ==
    (cfg.dry_run /\ pc \in Running \cup {"done", "cancelled"}) =>
        /\ remote.schema = {}
        /\ remote.data = {}
        /\ ~ remote.verified

\* C23: after a push in which a chunk failed, the state's failed-row list
\* holds a record for the rows of the failed chunks.
C23_FailedRowsRecorded ==
    (pc = "done" /\ failedRun) => mem.failed_rows # <<>>

\* C24: a finished push is reported as failed (exit code 1) if and only if
\* a row failed or verification recorded a row-count mismatch.
C24_RunOutcome ==
    pc = "done" =>
        (ExitCode(stats) = 1 <=> (failedRun \/ remote.mismatch # {}))

\* a step of push itself that dispatches the next chunk and gets no success
ChunkFails ==
    /\ pc = "chunk"
    /\ chunks # <<>>
    /\ ~ cfg.dry_run
    /\ pc' \notin {"crashed", "cancelled"}
    /\ chunks' # chunks
    /\ acked' = acked

\* C25: a failing chunk (failure result or exception) does not abort push:
\* the chunk adds its row count to the table's failed count and one error
\* <table>@<start offset>, push goes on with the remaining chunks, so that a
\* first run dispatches every row of every table, and push returns with
\* tables_processed = tables_total.
C25_NoAbortOnFailure ==
    [][/\ ChunkFails =>
           /\ pc' = "chunk"
           /\ ti' = ti
           /\ chunks' = Tail(chunks)
           /\ loc'.table_rows_failed =
                  loc.table_rows_failed + Head(chunks).row_count
           /\ stats'.errors =
                  Append(stats.errors,
                         <<TableNames[ti], Head(chunks).start_offset>>)
       /\ pc' = "done" =>
           /\ stats'.tables_processed = stats'.tables_total
           /\ (plain' /\ run' = 1) => \A r \in SourceRows : sent'[r] = 1]_vars

\* a first run that returned after a two-row chunk of the first table and a
\* chunk of the second table failed
C25_Witness ==
    /\ pc = "done" /\ plain /\ run = 1
    /\ \E k \in 1..Len(stats.errors) : stats.errors[k] = <<"users", 0>>
    /\ \E k \in 1..Len(stats.errors) : stats.errors[k][1] = "orders"
    /\ src["users"] >= 2
    /\ acked # {}

\* the tables the state in memory marks completed
CompletedTables ==
    {t \in DOMAIN mem.tables : mem.tables[t].status = "completed"}

\* a step inside one run of push
RunStep ==
    /\ pc \in Running
    /\ pc' \in Running \cup {"done", "cancelled"}

\* C28: while a push runs, a table its state marks completed gets no schema
\* statement and no data chunk and keeps its progress record; when the table
\* loop reaches such a table, nothing was executed for it in this run; and
\* should_process_table is false exactly for the completed tables.
C28_CompletedSkipped ==
    [][/\ RunStep =>
           \A t \in CompletedTables :
               /\ t \in DOMAIN mem'.tables
               /\ mem'.tables[t] = mem.tables[t]
               /\ (t \in remote'.schema) = (t \in remote.schema)
               /\ (t \in remote'.data) = (t \in remote.data)
               /\ \A r \in RowsOf(t) : sent'[r] = sent[r]
       /\ (pc = "table" /\ ti \in 1..Len(TableNames)
              /\ TableNames[ti] \in CompletedTables) =>
           TableNames[ti] \notin remote.schema \cup remote.data
       /\ pc \in Running =>
           \A t \in TableSet :
               should_process_table(mem, t) = (t \notin CompletedTables)]_vars

\* a resumed run that skipped the completed first table and is at work on
\* the second
C28_Witness ==
    /\ run = 2
    /\ pc = "chunk"
    /\ ti = 2
    /\ src[TableNames[1]] > 0
    /\ TableNames[1] \in CompletedTables
    /\ TableNames[1] \notin remote.schema \cup remote.data
    /\ TableNames[2] \in remote.schema

\* C30: the state is saved after each batch and before the next is read: at
\* every batch boundary the persisted last_offset of the table is the offset
\* of the batch just finished plus its number of rows.
C30_PersistAfterBatch ==
    (pc = "batch" /\ loc.batch_len > 0) =>
        /\ file.kind = "valid"
        /\ TableNames[ti] \in DOMAIN file.st.tables
        /\ file.st.tables[TableNames[ti]].last_offset =
               loc.batch_offset + loc.batch_len

\* the boundary after the second batch of a table
C30_Witness ==
    /\ pc = "batch"
    /\ loc.batch_len > 0
    /\ loc.batch_offset > loc.start_offset
    /\ file.kind = "valid"

\* the step that the protocol has at position k of the requests issued
ProtocolStep(k) ==
    CASE k = 1 -> "init"
      [] k = 2 -> "upload"
      [] k = 3 -> "ingest"
      [] OTHER -> "poll"

\* a request after which the workflow may go on: an upload URL, a 2xx
\* upload, a successful ingest, a poll that found the import still running
StepPassed(entry) ==
    CASE entry.step = "init" -> entry.answer = "url"
      [] entry.step = "upload" -> entry.answer \in 200..299
      [] entry.step = "ingest" -> entry.answer = "success"
      [] OTHER -> entry.answer \in {"pending", "processing"}

C27_PollTerminates ==
    /\ im.pc \in {"idle", "init", "upload", "ingest", "poll", "done"}
    /\ Len(im.log) - 3 <= im.max_wait
    /\ (im.pc = "done" /\ Len(im.log) >= 4) =>
           LET last == im.log[Len(im.log)].answer
           IN  /\ \A k \in 4..(Len(im.log) - 1) :
                      im.log[k].answer \in {"pending", "processing"}
               /\ last = "complete" => im.result.success
               /\ last \in {"failed", "error"} =>
                      (~ im.result.success /\ im.result.error = last)
               /\ last \in {"pending", "processing"} =>
                      /\ ~ im.result.success
                      /\ im.result.error = "Import timed out"
                      /\ im.elapsed >= im.max_wait

\* rows yielded by the first k batches of the iteration
YieldedBefore[k \in 0..Len(it.batches)] ==
    IF k = 0 THEN 0
    ELSE YieldedBefore[k - 1] + it.batches[k].len

\* C21: iter_rows over a table of n rows yields batches with contiguous
\* offsets starting at offset, each of 1..batch_size rows and all but the
\* last of exactly batch_size; the rows yielded in total are
\* min(limit, max(0, n - offset)), or max(0, n - offset) without a limit;
\* an empty table yields nothing.
C21_BatchIteration ==
    /\ \A k \in 1..Len(it.batches) :
           /\ it.batches[k].offset = it.offset + YieldedBefore[k - 1]
           /\ it.batches[k].len \in 1..it.batch_size
           /\ k < Len(it.batches) => it.batches[k].len = it.batch_size
    /\ it.n = 0 => it.batches = <<>>
    /\ it.pc = "done" =>
           YieldedBefore[Len(it.batches)] =
               IF it.limit = NONE
               THEN Max(0, it.n - it.offset)
               ELSE Min(it.limit, Max(0, it.n - it.offset))

\* C29: the file written by Settings.to_file never holds the API token: its
\* content is the same whatever the token of the settings is, and it holds
\* the redaction marker in the token's place.
C29_TokenNotWritten ==
    tf.called =>
        /\ \A k \in DOMAIN tf.content.data :
               tf.settings.cloudflare_api_token # "" =>
                   tf.content.data[k][2] # tf.settings.cloudflare_api_token
        /\ \A t \in Tokens :
               to_file([tf.settings EXCEPT !.cloudflare_api_token = t],
                       tf.suffix) = tf.content
        /\ \E k \in DOMAIN tf.content.data :
               tf.content.data[k] = <<"cloudflare_api_token", REDACTED>>

\* settings with a token written to a TOML file
C29_Witness ==
    /\ tf.called
    /\ tf.settings.cloudflare_api_token = "tok-a"
    /\ tf.suffix = ".toml"

\* C38: once a batch of the current table has been recorded in this run,
\* the table's processed_rows + failed_rows equals its last_offset minus the
\* offset at which the run started the table, and when all chunks of a batch
\* are done every row of it was counted once, as processed or as failed.
C38_BatchAccounting ==
    /\ (pc \in {"batch", "chunk"} /\ loc.current_offset > loc.start_offset) =>
           LET p == mem.tables[TableNames[ti]]
           IN  /\ p.last_offset = loc.current_offset
               /\ p.processed_rows + p.failed_rows =
                      p.last_offset - loc.start_offset
    /\ (pc = "chunk" /\ chunks = <<>>) =>
           loc.table_rows_processed + loc.table_rows_failed =
               loc.batch_offset + loc.batch_len - loc.start_offset

\* a resumed run that has recorded a batch with a failed chunk
C38_Witness ==
    /\ pc = "batch"
    /\ run = 2
    /\ loc.start_offset > 0
    /\ loc.current_offset > loc.start_offset
    /\ mem.tables[TableNames[ti]].failed_rows > 0

\* C39: a persisted overall status completed implies that every selected
\* table has status completed; a push left through an exception or an
\* interruption with a table not yet terminal is not recorded as completed.
C39_AbortedNotCompleted ==
    (file.kind = "valid" /\ file.st.status = "completed") =>
        \A t \in TableSet :
            /\ t \in DOMAIN file.st.tables
            /\ file.st.tables[t].status = "completed"

\* C40: a real, unlimited run with resume = false in which no chunk failed
\* has dispatched every row of every table when it returns, whatever the
\* state file held at its start.
C40_NoResumeFullRun ==
    (pc = "done" /\ ~ cfg.resume /\ ~ cfg.dry_run /\ cfg.limit = 0
        /\ ~ failedRun) => SourceRows \subseteq acked

\* a step of push that sends a statement to the remote: the CREATE TABLE of
\* the table being started, or the next data chunk of a real run
SendsStatement ==
    \/ pc = "table" /\ pc' = "batch" /\ sync_schema
    \/ /\ pc = "chunk" /\ pc' = "chunk"
       /\ ~ cfg.dry_run
       /\ Len(chunks') < Len(chunks)

\* C31: the statements of a push reach the remote one call at a time, the
\* chunks of a table in strictly increasing start_offset order and no
\* statement of a table after one of a later table in the sorted order.
C31_InOrderDispatch ==
    [][SendsStatement =>
          /\ remote'.last.ti = ti
          /\ \/ remote.last.ti < ti
             \/ /\ remote.last.ti = ti
                /\ remote.last.start_offset < remote'.last.start_offset
          /\ pc = "chunk" =>
                /\ remote'.last.start_offset = Head(chunks).start_offset
                /\ \A k \in 2..Len(chunks) :
                       chunks[k].start_offset > Head(chunks).start_offset]_vars

\* the second chunk of a batch of the second table has been sent
C31_Witness ==
    /\ pc = "chunk"
    /\ ti = 2
    /\ chunks = <<>>
    /\ remote.last.ti = 2
    /\ remote.last.start_offset > loc.batch_offset

\* C32: execute returns success = true only when the body of the response
\* that ended the call does not report success: false, whether that body's
\* errors list is filled, empty or absent.
C32_BodyFailureIsFailure ==
    (rq.pc = "done" /\ rq.result.success) =>
        rq.script[rq.attempts].kind \notin {"bodyfail", "noerrors"}

\* rows 1..k of the call's rows are the rows of its first RowsIn[k] chunks
RowsIn[k \in 0..Len(ck.out)] ==
    IF k = 0 THEN 0 ELSE RowsIn[k - 1] + ck.out[k].row_count

\* a run of consecutive rows that may form one statement: it fits the
\* ceiling, or it is a single row
FitsOneChunk(from, to) ==
    from = to \/ StatementSize(ck.sizes, from, to) <= MaxSize

\* the smallest number of chunks into which the first n rows can be cut
FewestChunks[n \in 0..Len(ck.sizes)] ==
    IF n = 0 THEN 0
    ELSE LET counts == {FewestChunks[j] + 1 :
                           j \in {i \in 0..(n - 1) : FitsOneChunk(i + 1, n)}}
         IN  CHOOSE c \in counts : \A d \in counts : c <= d

\* C33: chunk_rows emits the smallest possible number of order-preserving
\* chunks: no chunk but the last could take the first row of the next chunk,
\* with its two-byte separator, without exceeding the ceiling.
C33_GreedyMinimal ==
    ck.called =>
        /\ \A k \in 1..(Len(ck.out) - 1) :
               ck.out[k].byte_size + 2 + ck.sizes[RowsIn[k] + 1] > MaxSize
        /\ Len(ck.out) = FewestChunks[Len(ck.sizes)]

\* three rows cut into two chunks, the first of two rows
C33_Witness ==
    /\ ck.called
    /\ Len(ck.sizes) = 3
    /\ Len(ck.out) = 2
    /\ ck.out[1].row_count = 2

\* C34: after any sequence of record_failed_row calls the list holds at most
\* one record per (table, offset); a call for a recorded (table, offset)
\* adds no entry, raises that record's retry_count by one, overwrites its
\* error and leaves every other record as it was.
C34_FailedRowDedup ==
    /\ \A j, k \in 1..Len(fr.rows) :
          (fr.rows[j].table = fr.rows[k].table
              /\ fr.rows[j].row_offset = fr.rows[k].row_offset) => j = k
    /\ fr.calls > 0 =>
          LET present == {k \in 1..Len(fr.before) :
                             /\ fr.before[k].table = fr.table
                             /\ fr.before[k].row_offset = fr.offset}
          IN  IF present # {}
              THEN /\ Len(fr.rows) = Len(fr.before)
                   /\ \A k \in 1..Len(fr.rows) :
                         IF k \in present
                         THEN /\ fr.rows[k].retry_count =
                                     fr.before[k].retry_count + 1
                              /\ fr.rows[k].error = fr.error
                              /\ fr.rows[k].table = fr.table
                              /\ fr.rows[k].row_offset = fr.offset
                         ELSE fr.rows[k] = fr.before[k]
              ELSE /\ Len(fr.rows) = Len(fr.before) + 1
                   /\ \A k \in 1..Len(fr.before) : fr.rows[k] = fr.before[k]
                   /\ fr.rows[Len(fr.rows)] =
                         [table |-> fr.table, row_offset |-> fr.offset,
                          error |-> fr.error, retry_count |-> 0]

\* a row recorded three times, last with another error
C34_Witness ==
    /\ fr.calls = 3
    /\ Len(fr.rows) = 1
    /\ fr.rows[1].retry_count = 2
    /\ fr.before[1].error # fr.rows[1].error

\* alphabetical rank of a key
KeyRank(key) == CHOOSE i \in 1..Len(Keys) : Keys[i] = key

\* C35: find_mismatches returns the missing_in_dest and checksum_mismatch
\* entries first, in the order of the source rows they come from, then the
\* extra_in_dest entries, one per destination key matched by no source row,
\* in alphabetical order of their keys.
C35_MismatchOrder ==
    fm.called =>
        LET out == fm.out
            IsExtra(k) == out[k].type = "extra_in_dest"
            source_keys == {fm.source_rows[i].key :
                               i \in 1..Len(fm.source_rows)}
            dest_keys == {fm.dest_rows[i].key : i \in 1..Len(fm.dest_rows)}
        IN  /\ \A j, k \in 1..Len(out) :
                  (j < k /\ IsExtra(j)) => IsExtra(k)
            /\ \A j, k \in 1..Len(out) :
                  (j < k /\ IsExtra(j) /\ IsExtra(k)) =>
                      KeyRank(out[j].key) < KeyRank(out[k].key)
            /\ {out[k].key : k \in {j \in 1..Len(out) : IsExtra(j)}} =
                  dest_keys \ source_keys
            /\ \E at \in [{k \in 1..Len(out) : ~ IsExtra(k)} ->
                             1..Len(fm.source_rows)] :
                  /\ \A k \in DOMAIN at : fm.source_rows[at[k]].key = out[k].key
                  /\ \A j, k \in DOMAIN at : j < k => at[j] < at[k]

\* every single quote of s stands in a pair of two adjacent quotes
RECURSIVE QuotesPaired(_)
QuotesPaired(s) ==
    IF s = <<>> THEN TRUE
    ELSE IF Head(s) # "'" THEN QuotesPaired(Tail(s))
    ELSE Len(s) >= 2 /\ s[2] = "'" /\ QuotesPaired(Tail(Tail(s)))

\* s with each pair of adjacent quotes replaced by one quote
RECURSIVE Undoubled(_)
Undoubled(s) ==
    IF s = <<>> THEN <<>>
    ELSE IF Len(s) >= 2 /\ s[1] = "'" /\ s[2] = "'"
         THEN <<"'">> \o Undoubled(Tail(Tail(s)))
         ELSE <<Head(s)>> \o Undoubled(Tail(s))

\* C36: for a text value escape_value returns a literal that begins and ends
\* with a single quote and whose interior holds single quotes only as
\* doubled pairs; undoubling the interior gives the text without its NULs.
C36_EscapeRoundTrip ==
    ev.called =>
        LET out == ev.out
            interior == SubSeq(out, 2, Len(out) - 1)
        IN  /\ Len(out) >= 2
            /\ out[1] = "'"
            /\ out[Len(out)] = "'"
            /\ QuotesPaired(interior)
            /\ Undoubled(interior) = SelectSeq(ev.value, LAMBDA c : c # "NUL")

\* a text with two quotes that a NUL keeps apart
C36_Witness ==
    /\ ev.called
    /\ ev.value = <<"'", "NUL", "'", "a">>

\* C37: a table that pull marks completed had its remote queries succeed and
\* all its rows fetched: the rows fetched, and in a real run the rows
\* inserted locally, equal the remote row count recorded as total_rows,
\* whatever the size of the table.
C37_PullComplete ==
    pl.progress.status = "completed" =>
        /\ pl.count_ok
        /\ pl.fetch_ok
        /\ pl.progress.total_rows = pl.n
        /\ pl.fetched = pl.progress.total_rows
        /\ ~ pl.dry_run => pl.inserted = pl.progress.total_rows

====
